---- MODULE Spec2Model ----
(***************************************************************************)
(* Reconciliation engine of sync_dd_from_file.py: sync_ad_groups_to_y360   *)
(* (group level) and sync_group_members (membership level), together with  *)
(* the Yandex 360 directory service they call.                             *)
(*                                                                         *)
(* A string is the sequence of the code points of its characters ('DDG;'   *)
(* is <<68, 68, 71, 59>>), so that startswith, split, lower, replace and   *)
(* isalnum are computed and not assumed; 32 is ' ', 45 '-', 59 ';', 64 '@' *)
(* and 95 '_'.  Python's None and a key missing from a dict are the two    *)
(* distinguished values None and Absent, one-element sequences of a        *)
(* negative number, which no string is.                                    *)
(***************************************************************************)
EXTENDS Integers, Sequences, FiniteSets, TLC

VARIABLES
    dry_run,          \* settings.dry_run
    ad_groups,        \* the source snapshot handed to the sync function
    y360_groups,      \* the target-group snapshot handed to the sync function
    y360_users,       \* the target-user snapshot handed to sync_group_members
    files,            \* the members files: file name -> list of e-mail strings
    remote_groups,    \* the service: its groups, in listing order
    remote_members,   \* the service: group id -> list of user members
    next_id,          \* the service: the id the next created group gets
    fn,               \* the function being run: "groups" or "members"
    pc,               \* position inside the function
    i,                \* index of the loop over ad_groups / y360_groups
    groups_to_delete, \* sync_ad_groups_to_y360: the deletion queue
    users_to_add,     \* sync_group_members: handles still to add to the group
    users_to_remove,  \* sync_group_members: members still to remove
    stats,            \* the statistics dictionary of the running function
    result,           \* what the function returned: NoResult or [ok, stats]
    calls,            \* remote calls and sleeps of this pass, oldest first
    failures,         \* remote calls so far that did not succeed
    pass,             \* 1 in the first run of the script, 2 in the second
    prev,             \* in step 6 of __main__: how step 4 went, [dry, ok, stats, ..]
    retries,          \* the counter of a remote wrapper that is being run
    remote_pages,     \* the service: the pages of the listing that is fetched
    current_page,     \* paginated fetch: the page requested next
    last_page,        \* paginated fetch: the last page as reported so far
    fetched,          \* paginated fetch: the list "groups" / "users" so far
    all_users,        \* settings.all_users
    all_users_get_timestamp,  \* settings.all_users_get_timestamp, in seconds
    now,              \* datetime.now(), in seconds
    force,            \* the argument of the last call of get_all_api360_users
    member_type,      \* the argument of a wrapper of members that is being run
    user_arg,         \* the argument "user" of create_user_by_api that is being run
    enable_diagnostics,      \* settings.enable_diagnostics
    y360_group_members_dir,  \* settings.y360_group_members_dir
    run1              \* whether step 3 of the first run of the script got the
                      \* groups of the service; in the second run, how the
                      \* first one went as well

vars == <<dry_run, ad_groups, y360_groups, y360_users, files, remote_groups,
          remote_members, next_id, fn, pc, i, groups_to_delete, users_to_add,
          users_to_remove, stats, result, calls, failures, pass, prev, retries,
          remote_pages, current_page, last_page, fetched, all_users,
          all_users_get_timestamp, now, force, member_type, user_arg,
                   enable_diagnostics, y360_group_members_dir, run1>>

----------------------------------------------------------------------------
(* Bounds of the model *)

MaxAd == 2
MaxY360 == 2
MaxFailures == 2

----------------------------------------------------------------------------
(* Python values *)

None == <<-1>>
Absent == <<-2>>
NoResult == <<-3>>
IndexError == <<-4>>
\* the exception of a method called on None
AttributeError == <<-5>>

\* bool(v) for a string or None
Truthy(v) == v /= None /\ v /= Absent /\ v /= <<>>

\* dict.get(key, default) on a field that may be missing
Get(v, default) == IF v = Absent THEN default ELSE v

\* dict.get(key) on a field that may be missing
GetOrNone(v) == Get(v, None)

\* c in s
Contains(s, c) == \E k \in 1..Len(s) : s[k] = c

\* index of the first c in s, 0 when there is none
IndexOf(s, c) ==
    IF Contains(s, c)
    THEN CHOOSE k \in 1..Len(s) : s[k] = c /\ \A m \in 1..(k - 1) : s[m] /= c
    ELSE 0

\* s.split(c)[0]
SplitFirst(s, c) ==
    IF Contains(s, c) THEN SubSeq(s, 1, IndexOf(s, c) - 1) ELSE s

\* The characters of the model: Basic Latin, Latin-1 Supplement, Latin
\* Extended-A, the combining dot above (775) and Cyrillic.  The functions
\* of characters below have a value for these characters and for no other
Alphabet == (0..383) \cup {775} \cup (1024..1279)

\* c.lower() for one character, a string: the table of the Unicode
\* database within the alphabet, <<first, last, step, lower - upper>>;
\* 304 (capital I with a dot above) becomes 'i' and the combining dot.
\* No character before 'A', and none from '[' to 191, has a lower case
LowerChar(c) ==
    LET table == << <<65, 90, 1, 32>>, <<192, 214, 1, 32>>, <<216, 222, 1, 32>>,
                    <<256, 302, 2, 1>>, <<306, 310, 2, 1>>, <<313, 327, 2, 1>>,
                    <<330, 374, 2, 1>>, <<376, 376, 1, -121>>, <<377, 381, 2, 1>>,
                    <<1024, 1039, 1, 80>>, <<1040, 1071, 1, 32>>,
                    <<1120, 1152, 2, 1>>, <<1162, 1214, 2, 1>>,
                    <<1216, 1216, 1, 15>>, <<1217, 1229, 2, 1>>,
                    <<1232, 1278, 2, 1>> >>
        In(r) == c >= r[1] /\ c <= r[2] /\ (c - r[1]) % r[3] = 0
    IN CASE c \in 0..64 \/ c \in 91..191 -> <<c>>
         [] c \in 65..90 -> <<c + 32>>
         [] c = 304 -> <<105, 775>>
         [] c \in Alphabet \ {304} /\ c > 191
                /\ (\E k \in 1..Len(table) : In(table[k])) ->
                <<c + table[CHOOSE k \in 1..Len(table) : In(table[k])][4]>>
         [] c \in Alphabet \ {304} /\ c > 191
                /\ ~(\E k \in 1..Len(table) : In(table[k])) ->
                <<c>>

\* s.lower(): the lower-cased characters in their order (the string may
\* get longer)
RECURSIVE Lower(_)
Lower(s) == IF s = <<>> THEN <<>> ELSE LowerChar(Head(s)) \o Lower(Tail(s))

\* s.replace(' ', '_')
ReplaceSpaces(s) == [k \in 1..Len(s) |-> IF s[k] = 32 THEN 95 ELSE s[k]]

\* the set of elements of a list
Range(s) == {s[k] : k \in 1..Len(s)}

\* the lists of at most n elements of a list, in its order
SubLists(s, n) ==
    {[k \in 1..Len(f) |-> s[f[k]]] :
        f \in {g \in UNION {[1..k -> 1..Len(s)] : k \in 0..n} :
                \A k, m \in 1..Len(g) : k < m => g[k] < g[m]}}

----------------------------------------------------------------------------
(* The sync tag *)

TagPrefix == <<68, 68, 71, 59>>

\* f"DDG;{object_guid}"
MakeExternalId(object_guid) == TagPrefix \o object_guid

\* the test of the delimiter alone
IsTagged_AnyTag(external_id) == Contains(external_id, 59)

\* external_id.startswith('DDG;'): external_id is the value of the key
\* externalId, '' for a group without the key, and None (the key with null)
\* has no startswith
IsTagged(external_id) ==
    IF external_id = None THEN AttributeError
    ELSE /\ Len(external_id) >= Len(TagPrefix)
         /\ SubSeq(external_id, 1, Len(TagPrefix)) = TagPrefix

\* whether the test of the prefix raises for a target group
TagTestRaises(y360_group) == Get(y360_group.externalId, <<>>) = None

\* external_id.split(';', 1)[1], which raises IndexError when external_id
\* has no ';'
GuidOfExternalId(external_id) ==
    IF Contains(external_id, 59)
    THEN SubSeq(external_id, IndexOf(external_id, 59) + 1, Len(external_id))
    ELSE IndexError

----------------------------------------------------------------------------
(* sync_ad_groups_to_y360: the pure parts *)

GroupStats0 ==
    [ad_groups_count |-> 0, y360_groups_count |-> 0, created_count |-> 0,
     updated_count |-> 0, deleted_count |-> 0, errors_count |-> 0,
     skipped_count |-> 0]

\* the success that does not look at the errors
SuccessFlag_Always(st) == TRUE

\* success = stats['errors_count'] == 0
SuccessFlag(st) == st.errors_count = 0

\* The loop "for group in y360_groups: if external_id: index[external_id] = group":
\* the keys of y360_groups_by_external_id ...
ExternalIdKeys(groups) ==
    {Get(groups[k].externalId, <<>>) : k \in 1..Len(groups)} \ {<<>>, None}

\* ... and the group a key maps to, the last one of the list that carries it
GroupByExternalId(groups, external_id) ==
    LET I == {k \in 1..Len(groups) : Get(groups[k].externalId, <<>>) = external_id}
    IN groups[CHOOSE k \in I : \A m \in I : m <= k]

\* the checks on a source group without the one of mail
HasRequiredFields_NoMailTest(ad_group) ==
    /\ Truthy(GetOrNone(ad_group.objectGUID))
    /\ Truthy(GetOrNone(ad_group.displayName))

\* the three "if not ...: skip" checks on a source group
HasRequiredFields(ad_group) ==
    /\ Truthy(GetOrNone(ad_group.objectGUID))
    /\ Truthy(GetOrNone(ad_group.displayName))
    /\ Truthy(GetOrNone(ad_group.mail))

\* the expected label without the test of '@'
ExpectedLabel_NoAtTest(mail) ==
    IF Truthy(mail) THEN SplitFirst(mail, 64) ELSE None

\* expected_label = mail.split('@')[0] if mail and '@' in mail else None
ExpectedLabel(mail) ==
    IF Truthy(mail) /\ Contains(mail, 64) THEN SplitFirst(mail, 64) ELSE None

\* expected_description = description if description else ""
ExpectedDescription(description) ==
    IF Truthy(description) THEN description ELSE <<>>

\* the changes_needed that always carries the name
ChangesNeeded_NameAlways(ad_group, y360_group) ==
    LET display_name == GetOrNone(ad_group.displayName)
        expected_label == ExpectedLabel(GetOrNone(ad_group.mail))
        expected_description == ExpectedDescription(GetOrNone(ad_group.description))
        keys ==
            {"name"}
            \cup
            (IF Truthy(expected_label) /\ Get(y360_group.label, <<>>) /= expected_label
             THEN {"label"} ELSE {})
            \cup
            (IF Get(y360_group.description, <<>>) /= expected_description
             THEN {"description"} ELSE {})
    IN [k \in keys |->
            CASE k = "name" -> display_name
              [] k = "label" -> expected_label
              [] k = "description" -> expected_description]

\* changes_needed of a matched pair: a dict over name, label, description
ChangesNeeded(ad_group, y360_group) ==
    LET display_name == GetOrNone(ad_group.displayName)
        expected_label == ExpectedLabel(GetOrNone(ad_group.mail))
        expected_description == ExpectedDescription(GetOrNone(ad_group.description))
        keys ==
            (IF Get(y360_group.name, <<>>) /= display_name THEN {"name"} ELSE {})
            \cup
            (IF Truthy(expected_label) /\ Get(y360_group.label, <<>>) /= expected_label
             THEN {"label"} ELSE {})
            \cup
            (IF Get(y360_group.description, <<>>) /= expected_description
             THEN {"description"} ELSE {})
    IN [k \in keys |->
            CASE k = "name" -> display_name
              [] k = "label" -> expected_label
              [] k = "description" -> expected_description]

\* the group_data whose label is the whole mail address
GroupData_MailAsLabel(ad_group) ==
    LET mail == GetOrNone(ad_group.mail)
        description == GetOrNone(ad_group.description)
    IN [name |-> GetOrNone(ad_group.displayName),
        externalId |-> MakeExternalId(GetOrNone(ad_group.objectGUID)),
        label |-> IF Truthy(mail) THEN mail ELSE Absent,
        description |-> IF Truthy(description) THEN description ELSE Absent]

\* the group_data that leaves the description out
GroupData_NoDescription(ad_group) ==
    LET mail == GetOrNone(ad_group.mail)
    IN [name |-> GetOrNone(ad_group.displayName),
        externalId |-> MakeExternalId(GetOrNone(ad_group.objectGUID)),
        label |-> IF Truthy(mail) /\ Contains(mail, 64)
                  THEN SplitFirst(mail, 64) ELSE Absent,
        description |-> Absent]

\* group_data of a source group that has no target group
GroupData(ad_group) ==
    LET mail == GetOrNone(ad_group.mail)
        description == GetOrNone(ad_group.description)
    IN [name |-> GetOrNone(ad_group.displayName),
        externalId |-> MakeExternalId(GetOrNone(ad_group.objectGUID)),
        label |-> IF Truthy(mail) /\ Contains(mail, 64)
                  THEN SplitFirst(mail, 64) ELSE Absent,
        description |-> IF Truthy(description) THEN description ELSE Absent]

\* the identifiers of the source groups that are not skipped only
AdObjectGuids_SyncedOnly(groups) ==
    {GetOrNone(groups[k].objectGUID) :
        k \in {m \in 1..Len(groups) : HasRequiredFields(groups[m])}} \ {None, <<>>}

\* ad_object_guids
AdObjectGuids(groups) ==
    {GetOrNone(groups[k].objectGUID) : k \in 1..Len(groups)} \ {None, <<>>}

\* the same without the test of the prefix
IsDeletionCandidate_AnyPrefix(y360_group, guids) ==
    LET external_id == Get(y360_group.externalId, <<>>)
    IN /\ GuidOfExternalId(external_id) /= IndexError
       /\ GuidOfExternalId(external_id) \notin guids

\* the same for the groups with something behind the delimiter only
IsDeletionCandidate_NonEmptyGuid(y360_group, guids) ==
    LET external_id == Get(y360_group.externalId, <<>>)
    IN /\ external_id /= None
       /\ IsTagged(external_id)
       /\ GuidOfExternalId(external_id) /= <<>>
       /\ GuidOfExternalId(external_id) \notin guids

\* whether a target group is appended to groups_to_delete
IsDeletionCandidate(y360_group, guids) ==
    LET external_id == Get(y360_group.externalId, <<>>)
    IN /\ external_id /= None
       /\ IsTagged(external_id)
       /\ GuidOfExternalId(external_id) /= IndexError
       /\ GuidOfExternalId(external_id) \notin guids

\* groups_to_delete, in the order of y360_groups; the loop that fills it
\* raises at a target group whose externalId is None
GroupsToDelete(ad, y360) ==
    LET cand == SelectSeq(y360, LAMBDA g : IsDeletionCandidate(g, AdObjectGuids(ad)))
    IN IF \E k \in 1..Len(y360) : TagTestRaises(y360[k])
       THEN AttributeError
       ELSE [k \in 1..Len(cand) |->
                [id |-> cand[k].id,
                 name |-> GetOrNone(cand[k].name),
                 externalId |-> Get(cand[k].externalId, <<>>),
                 objectGUID |-> GuidOfExternalId(Get(cand[k].externalId, <<>>))]]

----------------------------------------------------------------------------
(* The directory service behind the remote wrappers *)

\* what a remote call may answer: "ok" (done), "noop" (HTTP OK, nothing
\* changed), "fail" (the wrapper returned (False, {})); at most MaxFailures
\* calls of a run answer other than "ok"
Answers(all) == IF failures < MaxFailures THEN all ELSE {"ok"}

Sleep == [op |-> "sleep", id |-> 0, data |-> None, res |-> "ok"]

Call(op, id, data, res) == [op |-> op, id |-> id, data |-> data, res |-> res]

\* POST /groups
ServiceCreate(groups, id, group_data) ==
    Append(groups, [id |-> id, externalId |-> group_data.externalId,
                    name |-> group_data.name, label |-> group_data.label,
                    description |-> group_data.description])

\* POST /groups: the group the service creates has no member
ServiceCreateMembers(members, id) ==
    [k \in DOMAIN members \cup {id} |->
        IF k \in DOMAIN members THEN members[k] ELSE <<>>]

\* PATCH /groups/{id}
ServicePatch(groups, id, patch_data) ==
    [k \in 1..Len(groups) |->
        IF groups[k].id /= id THEN groups[k]
        ELSE [f \in DOMAIN groups[k] |->
                IF f \in DOMAIN patch_data THEN patch_data[f] ELSE groups[k][f]]]

\* DELETE /groups/{id}
ServiceDelete(groups, id) == SelectSeq(groups, LAMBDA g : g.id /= id)

----------------------------------------------------------------------------
(* sync_ad_groups_to_y360: the steps *)

\* the patch that does not look at settings.dry_run
PatchAnswers_IgnoreDryRun(dry) == Answers({"ok", "fail"})

\* "if not settings.dry_run" around patch_group_by_api
PatchAnswers(dry) == IF dry THEN {"dry"} ELSE Answers({"ok", "fail"})

\* "if not settings.dry_run" around create_group_by_api
CreateAnswers(dry) == IF dry THEN {"dry"} ELSE Answers({"ok", "fail"})

\* the delete that does not look at settings.dry_run
DeleteAnswers_IgnoreDryRun(dry) == Answers({"ok", "noop", "fail"})

\* "if not settings.dry_run" around delete_group_by_api
DeleteAnswers(dry) == IF dry THEN {"dry"} ELSE Answers({"ok", "noop", "fail"})

\* the log of a mutating step that does not sleep
Logged_NoSleep(call, res) ==
    IF res = "dry" THEN calls ELSE Append(calls, call)

\* the log after one mutating step: the call, then time.sleep
Logged(call, res) ==
    IF res = "dry" THEN calls ELSE Append(Append(calls, call), Sleep)

Failed(res) == IF res \in {"noop", "fail"} THEN failures + 1 ELSE failures

Bump(st, key) == [st EXCEPT ![key] = @ + 1]

\* the count of a patch that adds a failed one to updated_count too
PatchCounted_FailedAlsoUpdated(st, res) ==
    IF res = "fail" THEN Bump(Bump(st, "updated_count"), "errors_count")
    ELSE Bump(st, "updated_count")

\* the counter a patch moves: live and updated, live and failed, dry run
PatchCounted(st, res) ==
    IF res = "fail" THEN Bump(st, "errors_count") ELSE Bump(st, "updated_count")

\* the create whose failure is not counted
CreateCounted_FailUncounted(st, res) ==
    IF res = "fail" THEN st ELSE Bump(st, "created_count")

\* the counter a create moves
CreateCounted(st, res) ==
    IF res = "fail" THEN Bump(st, "errors_count") ELSE Bump(st, "created_count")

\* the delete that a dry run does not count
DeleteCounted_DryUncounted(st, res) ==
    CASE res = "dry" -> st
      [] res \in {"noop", "fail"} -> Bump(st, "errors_count")
      [] OTHER -> Bump(st, "deleted_count")

\* the counter a delete moves: "if success and result.get('removed')"
DeleteCounted(st, res) ==
    IF res \in {"noop", "fail"} THEN Bump(st, "errors_count")
    ELSE Bump(st, "deleted_count")

\* the add that counts the answer added = false as an error
AddCounted_NoopIsError(st, res) ==
    CASE res \in {"fail", "noop"} -> Bump(st, "errors_count")
      [] OTHER -> Bump(st, "users_added_count")

\* the counter an add moves: nothing when the service answers added = false
AddCounted(st, res) ==
    CASE res = "fail" -> Bump(st, "errors_count")
      [] res = "noop" -> st
      [] OTHER -> Bump(st, "users_added_count")

\* the counter a remove moves: nothing when the service answers deleted = false
RemoveCounted(st, res) ==
    CASE res = "fail" -> Bump(st, "errors_count")
      [] res = "noop" -> st
      [] OTHER -> Bump(st, "users_removed_count")

\* the frame of a step that takes the target groups over from the service
G_unchanged_TargetRefreshed ==
    /\ y360_groups' = remote_groups
    /\ UNCHANGED <<dry_run, ad_groups, y360_users, files, fn, users_to_add,
                   users_to_remove, pass, prev, retries, remote_pages,
                   current_page, last_page, fetched, all_users,
                   all_users_get_timestamp, now, force,
                   member_type, user_arg,
                   enable_diagnostics, y360_group_members_dir, run1>>

G_unchanged == UNCHANGED <<dry_run, ad_groups, y360_groups, y360_users, files,
                           fn, users_to_add, users_to_remove, pass, prev,
                           retries, remote_pages,
                   current_page, last_page, fetched, all_users,
                   all_users_get_timestamp, now, force,
                   member_type, user_arg,
                   enable_diagnostics, y360_group_members_dir, run1>>

\* "if not ad_groups: return True, stats"
G_EarlyReturn ==
    /\ fn = "groups" /\ pc = "start"
    /\ ad_groups = <<>>
    /\ pc' = "returned"
    /\ stats' = GroupStats0
    /\ result' = [ok |-> TRUE, stats |-> GroupStats0]
    /\ UNCHANGED <<i, groups_to_delete, calls, failures, remote_groups, next_id>>
    /\ UNCHANGED remote_members
    /\ G_unchanged

\* the counters of the two lists and the index by externalId
G_Start ==
    /\ fn = "groups" /\ pc = "start"
    /\ ad_groups /= <<>>
    /\ stats' = [GroupStats0 EXCEPT !.ad_groups_count = Len(ad_groups),
                                    !.y360_groups_count = Len(y360_groups)]
    /\ i' = 1
    /\ pc' = "g_loop"
    /\ UNCHANGED <<groups_to_delete, result, calls, failures, remote_groups, next_id>>
    /\ UNCHANGED remote_members
    /\ G_unchanged

\* a source group without objectGUID, displayName or mail
G_Skip ==
    /\ fn = "groups" /\ pc = "g_loop" /\ i <= Len(ad_groups)
    /\ ~HasRequiredFields(ad_groups[i])
    /\ stats' = Bump(stats, "skipped_count")
    /\ i' = i + 1
    /\ UNCHANGED <<pc, groups_to_delete, result, calls, failures, remote_groups, next_id>>
    /\ UNCHANGED remote_members
    /\ G_unchanged

\* a matched pair with nothing to change
G_UpToDate ==
    /\ fn = "groups" /\ pc = "g_loop" /\ i <= Len(ad_groups)
    /\ HasRequiredFields(ad_groups[i])
    /\ LET external_id == MakeExternalId(ad_groups[i].objectGUID)
       IN /\ external_id \in ExternalIdKeys(y360_groups)
          /\ DOMAIN ChangesNeeded(ad_groups[i],
                        GroupByExternalId(y360_groups, external_id)) = {}
    /\ i' = i + 1
    /\ UNCHANGED <<pc, stats, groups_to_delete, result, calls, failures,
                   remote_groups, next_id>>
    /\ UNCHANGED remote_members
    /\ G_unchanged

\* a matched pair that differs: patch_group_by_api
G_Patch ==
    /\ fn = "groups" /\ pc = "g_loop" /\ i <= Len(ad_groups)
    /\ HasRequiredFields(ad_groups[i])
    /\ LET external_id == MakeExternalId(ad_groups[i].objectGUID)
       IN /\ external_id \in ExternalIdKeys(y360_groups)
          /\ LET y360_group == GroupByExternalId(y360_groups, external_id)
                 changes_needed == ChangesNeeded(ad_groups[i], y360_group)
                 group_id == y360_group.id
             IN /\ DOMAIN changes_needed /= {}
                /\ \E res \in PatchAnswers(dry_run) :
                     /\ calls' = Logged(Call("patch", group_id, changes_needed, res), res)
                     /\ failures' = Failed(res)
                     /\ stats' = PatchCounted(stats, res)
                     /\ remote_groups' =
                            IF res = "ok"
                            THEN ServicePatch(remote_groups, group_id, changes_needed)
                            ELSE remote_groups
    /\ i' = i + 1
    /\ UNCHANGED <<pc, groups_to_delete, result, next_id>>
    /\ UNCHANGED remote_members
    /\ G_unchanged

\* a source group with no target group: create_group_by_api
G_Create ==
    /\ fn = "groups" /\ pc = "g_loop" /\ i <= Len(ad_groups)
    /\ HasRequiredFields(ad_groups[i])
    /\ MakeExternalId(ad_groups[i].objectGUID) \notin ExternalIdKeys(y360_groups)
    /\ \E res \in CreateAnswers(dry_run) :
         /\ calls' = Logged(Call("create", 0, GroupData(ad_groups[i]), res), res)
         /\ failures' = Failed(res)
         /\ stats' = CreateCounted(stats, res)
         /\ remote_groups' =
                IF res = "ok"
                THEN ServiceCreate(remote_groups, next_id, GroupData(ad_groups[i]))
                ELSE remote_groups
         /\ remote_members' =
                IF res = "ok" THEN ServiceCreateMembers(remote_members, next_id)
                ELSE remote_members
         /\ next_id' = IF res = "ok" THEN next_id + 1 ELSE next_id
    /\ i' = i + 1
    /\ UNCHANGED <<pc, groups_to_delete, result>>
    /\ G_unchanged

\* after the loop: the test of the prefix meets a target group whose
\* externalId is None; AttributeError leaves the function before a deletion
G_Raise ==
    /\ fn = "groups" /\ pc = "g_loop" /\ i > Len(ad_groups)
    /\ \E k \in 1..Len(y360_groups) : TagTestRaises(y360_groups[k])
    /\ pc' = "raised"
    /\ UNCHANGED <<i, groups_to_delete, stats, result, calls, failures,
                   remote_groups, next_id>>
    /\ UNCHANGED remote_members
    /\ G_unchanged

\* after the loop: ad_object_guids and groups_to_delete
G_FindDeletions ==
    /\ fn = "groups" /\ pc = "g_loop" /\ i > Len(ad_groups)
    /\ \A k \in 1..Len(y360_groups) : ~TagTestRaises(y360_groups[k])
    /\ groups_to_delete' = GroupsToDelete(ad_groups, y360_groups)
    /\ pc' = "g_delete"
    /\ UNCHANGED <<i, stats, result, calls, failures, remote_groups, next_id>>
    /\ UNCHANGED remote_members
    /\ G_unchanged

\* one turn of "for group in groups_to_delete": delete_group_by_api
G_Delete ==
    /\ fn = "groups" /\ pc = "g_delete" /\ groups_to_delete /= <<>>
    /\ LET group == Head(groups_to_delete)
       IN \E res \in DeleteAnswers(dry_run) :
            /\ calls' = Logged(Call("delete", group.id, None, res), res)
            /\ failures' = Failed(res)
            /\ stats' = DeleteCounted(stats, res)
            /\ remote_groups' = IF res = "ok"
                                THEN ServiceDelete(remote_groups, group.id)
                                ELSE remote_groups
    /\ groups_to_delete' = Tail(groups_to_delete)
    /\ UNCHANGED <<pc, i, result, next_id>>
    /\ UNCHANGED remote_members
    /\ G_unchanged

\* "success = stats['errors_count'] == 0; return success, stats"
G_Return ==
    /\ fn = "groups" /\ pc = "g_delete" /\ groups_to_delete = <<>>
    /\ result' = [ok |-> SuccessFlag(stats), stats |-> stats]
    /\ pc' = "returned"
    /\ UNCHANGED <<i, groups_to_delete, stats, calls, failures, remote_groups, next_id>>
    /\ UNCHANGED remote_members
    /\ G_unchanged

----------------------------------------------------------------------------
(* sync_group_members: the pure parts *)

MemberStats0 ==
    [y360_groups_processed |-> 0, ad_groups_found |-> 0, users_added_count |-> 0,
     users_removed_count |-> 0, users_not_found_count |-> 0, errors_count |-> 0,
     skipped_groups_count |-> 0]

\* ad_groups_by_guid[object_guid] for a key of the index (AdObjectGuids):
\* the last source group with that objectGUID
AdGroupByGuid(groups, object_guid) ==
    LET I == {k \in 1..Len(groups) : GetOrNone(groups[k].objectGUID) = object_guid}
    IN groups[CHOOSE k \in I : \A m \in I : m <= k]

\* user.get('aliases', []), with "if aliases:" applied; a user without
\* the key is a record without the field
AliasList(user) == IF "aliases" \in DOMAIN user THEN user.aliases ELSE <<>>

\* the keys one user contributes to y360_users_by_nickname
HandlesOf(user) ==
    IF Truthy(GetOrNone(user.nickname))
    THEN {Lower(user.nickname)} \cup {Lower(a) : a \in Range(AliasList(user))}
    ELSE {}

\* the keys of y360_users_by_nickname
NicknameKeys(users) == UNION {HandlesOf(users[k]) : k \in 1..Len(users)}

\* the index that keeps the first user of the list that wrote the key
UserByNickname_FirstWins(users, handle) ==
    LET I == {k \in 1..Len(users) : handle \in HandlesOf(users[k])}
    IN users[CHOOSE k \in I : \A m \in I : m >= k]

\* y360_users_by_nickname[handle] for a key of the index: the last user of
\* the list that wrote the key
UserByNickname(users, handle) ==
    LET I == {k \in 1..Len(users) : handle \in HandlesOf(users[k])}
    IN users[CHOOSE k \in I : \A m \in I : m <= k]

\* whether "y360_users_by_nickname.get(nickname.lower()).get('aliases', [])"
\* raises AttributeError for this member
MemberRaises(member, users) ==
    \/ GetOrNone(member.nickname) = None
    \/ Lower(member.nickname) \notin NicknameKeys(users)

\* the member nicknames without the aliases
MemberNicknames_NoAliases(members, users) ==
    {Lower(members[k].nickname) : k \in 1..Len(members)}

\* y360_member_nicknames: the members' nicknames and the aliases of the
\* indexed users of these nicknames, lower-cased
MemberNicknames(members, users) ==
    UNION {(IF Truthy(members[k].nickname) THEN {Lower(members[k].nickname)} ELSE {})
           \cup {Lower(a) : a \in Range(AliasList(
                        UserByNickname(users, Lower(members[k].nickname))))}
           : k \in 1..Len(members)}

\* the head of the name of every members file: the Russian words for
\* 'distribution group', in Cyrillic letters, and two '_'
FilePrefix ==
    <<1043, 1088, 1091, 1087, 1087, 1072, 95, 1088, 1072, 1089, 1089, 1099,
      1083, 1082, 1080, 95>>

\* the name of the members file of a source group, without '.csv'
MembersFileName(ad_group) == FilePrefix \o ReplaceSpaces(ad_group.displayName)

\* get_group_members_from_file on the files of settings.members_files_dir;
\* a file is the list of the cells the reader keeps: the second cell of
\* every row after the header, stripped and not empty
GetGroupMembersFromFile(ad_group, fs) ==
    IF ~Truthy(GetOrNone(ad_group.displayName)) THEN <<>>
    ELSE IF MembersFileName(ad_group) \notin DOMAIN fs THEN <<>>
    ELSE fs[MembersFileName(ad_group)]

\* c.isalnum() for one character: the letters and the numeric characters
\* of the Unicode database within the alphabet, <<first, last>>
IsAlnum(c) ==
    LET table == << <<48, 57>>, <<65, 90>>, <<97, 122>>, <<170, 170>>,
                    <<178, 179>>, <<181, 181>>, <<185, 186>>, <<188, 190>>,
                    <<192, 214>>, <<216, 246>>, <<248, 383>>, <<1024, 1153>>,
                    <<1162, 1279>> >>
    IN CASE c \in Alphabet ->
            \E k \in 1..Len(table) : c >= table[k][1] /\ c <= table[k][2]

\* the characters of the alphabet that s.strip() takes off
Whitespace == {9, 10, 11, 12, 13, 28, 29, 30, 31, 32, 133, 160}

\* s.strip(chars), and s.strip() with chars = Whitespace
RECURSIVE Strip(_, _)
Strip(s, chars) ==
    IF s = <<>> THEN s
    ELSE IF Head(s) \in chars THEN Strip(Tail(s), chars)
    ELSE IF s[Len(s)] \in chars THEN Strip(SubSeq(s, 1, Len(s) - 1), chars)
    ELSE s

\* safe_group_name of save_group_members_to_csv
SafeGroupName(group_name) ==
    LET kept == SelectSeq(group_name,
                          LAMBDA c : IsAlnum(c) \/ c \in {32, 45, 95})
        named == ReplaceSpaces(Strip(kept, Whitespace))
    IN IF named = <<>>
       THEN <<117, 110, 110, 97, 109, 101, 100, 95, 103, 114, 111, 117, 112>>
       ELSE named

\* what get_group_members_from_file reads from a file that
\* save_group_members_to_csv wrote for these members: the second column is
\* the nickname, '' for a member without one; the cell of a nickname
\* without ';', '"', CR and LF is read as it was written
SavedCells(y360_member_users) ==
    LET cell(user) ==
            LET nickname == IF "nickname" \in DOMAIN user /\ user.nickname /= None
                            THEN user.nickname ELSE <<>>
            IN CASE \A k \in 1..Len(nickname) : nickname[k] \notin {10, 13, 34, 59} ->
                    Strip(Strip(Strip(nickname, Whitespace), {34}), {39})
        cells == [k \in 1..Len(y360_member_users) |-> cell(y360_member_users[k])]
    IN SelectSeq(cells, LAMBDA c : c /= <<>>)

\* the members files after save_group_members_to_csv: nothing is written
\* without diagnostics, nor for a group whose name is None (TypeError is
\* caught), and a file of another directory than settings.members_files_dir,
\* which is ".", is no members file
SaveGroupMembersToCsv(fs, y360_group, y360_member_users) ==
    LET group_name ==
            Get(y360_group.name, <<1073, 1077, 1079, 32, 1080, 1084, 1077, 1085, 1080>>)
    IN IF \/ ~enable_diagnostics
          \/ group_name = None
          \/ y360_group_members_dir /= "."
       THEN fs
       ELSE [n \in DOMAIN fs \cup {SafeGroupName(group_name)} |->
                IF n = SafeGroupName(group_name)
                THEN SavedCells(y360_member_users)
                ELSE fs[n]]

\* ad_nicknames_set
AdNicknamesSet(emails) ==
    {Lower(SplitFirst(emails[k], 64)) :
        k \in {n \in 1..Len(emails) : Contains(emails[n], 64)}}

\* the source handles, whoever is a member already
MissingHandles_NoMembers(emails, members, users) == AdNicknamesSet(emails)

\* the source handles that are neither a member's nickname nor a member's alias
MissingHandles(emails, members, users) ==
    AdNicknamesSet(emails) \ MemberNicknames(members, users)

\* users_to_add (built from a set, so in no fixed order)
UsersToAdd(emails, members, users) ==
    {[nickname |-> h, user_id |-> UserByNickname(users, h).id] :
        h \in MissingHandles(emails, members, users) \cap NicknameKeys(users)}

\* the count of every missing handle, resolvable or not
UsersNotFound_CountsAll(emails, members, users) ==
    Cardinality(MissingHandles(emails, members, users))

\* the number of "stats['users_not_found_count'] += 1"
UsersNotFound(emails, members, users) ==
    Cardinality(MissingHandles(emails, members, users) \ NicknameKeys(users))

\* the removal that compares the nickname as it is spelled
UsersToRemove_CaseSensitive(emails, members) ==
    LET gone == SelectSeq(members,
                    LAMBDA m : /\ Truthy(GetOrNone(m.nickname))
                               /\ m.nickname \notin AdNicknamesSet(emails))
    IN [k \in 1..Len(gone) |->
            [nickname |-> gone[k].nickname, user_id |-> gone[k].id]]

\* users_to_remove, in the order of the member list
UsersToRemove(emails, members) ==
    LET gone == SelectSeq(members,
                    LAMBDA m : /\ Truthy(GetOrNone(m.nickname))
                               /\ Lower(m.nickname) \notin AdNicknamesSet(emails))
    IN [k \in 1..Len(gone) |->
            [nickname |-> gone[k].nickname, user_id |-> gone[k].id]]

\* the comparison that replaces the members: every resolvable source handle
\* is added and every member is removed
CompareMembers_ReplaceAll(emails, members, users) ==
    [add |-> {[nickname |-> h, user_id |-> UserByNickname(users, h).id] :
                h \in AdNicknamesSet(emails) \cap NicknameKeys(users)},
     remove |-> [k \in 1..Len(members) |->
                    [nickname |-> members[k].nickname, user_id |-> members[k].id]],
     not_found |-> UsersNotFound(emails, members, users)]

\* the comparison of one group: both lists and the not-found count
CompareMembers(emails, members, users) ==
    [add |-> UsersToAdd(emails, members, users),
     remove |-> UsersToRemove(emails, members),
     not_found |-> UsersNotFound(emails, members, users)]

----------------------------------------------------------------------------
(* The users the service knows, and its group members *)

U1 == [id |-> 1, nickname |-> <<97>>, aliases |-> << <<83>> >>]
U2 == [id |-> 2, nickname |-> <<66>>]
U3 == [id |-> 3, nickname |-> <<99>>, aliases |-> <<>>]
U4 == [id |-> 4, nickname |-> <<122>>, aliases |-> << <<97>> >>]
Robot == [id |-> 9, nickname |-> <<114>>]

ServiceUsers == {U1, U2, U3, U4, Robot}

\* a user as GET /groups/{id}/members lists it
AsMember(user) == [id |-> user.id, nickname |-> user.nickname]

\* POST /groups/{id}/members
ServiceAddMember(members, group_id, user_id) ==
    IF group_id \notin DOMAIN members THEN members
    ELSE [members EXCEPT ![group_id] =
            IF \E k \in 1..Len(@) : @[k].id = user_id THEN @
            ELSE @ \o [k \in 1..Cardinality({u \in ServiceUsers : u.id = user_id})
                         |-> AsMember(CHOOSE u \in ServiceUsers : u.id = user_id)]]

\* DELETE /groups/{id}/members/user/{user_id}
ServiceDeleteMember(members, group_id, user_id) ==
    IF group_id \notin DOMAIN members THEN members
    ELSE [members EXCEPT ![group_id] = SelectSeq(@, LAMBDA m : m.id /= user_id)]

----------------------------------------------------------------------------
(* sync_group_members: the steps *)

\* get_group_members_by_api is called in both modes
ReadAnswers(group_id) ==
    IF group_id \in DOMAIN remote_members THEN Answers({"ok", "fail"}) ELSE {"fail"}

\* "if not settings.dry_run" around add_member_to_group_by_api
AddAnswers(dry) == IF dry THEN {"dry"} ELSE Answers({"ok", "noop", "fail"})

\* "if not settings.dry_run" around delete_member_from_group_by_api
RemoveAnswers(dry) == IF dry THEN {"dry"} ELSE Answers({"ok", "noop", "fail"})

M_unchanged == UNCHANGED <<dry_run, ad_groups, y360_groups, y360_users,
                           remote_groups, next_id, fn, groups_to_delete,
                           pass, prev, retries, remote_pages,
                   current_page, last_page, fetched, all_users,
                   all_users_get_timestamp, now, force,
                   member_type, user_arg,
                   enable_diagnostics, y360_group_members_dir, run1>>

\* the three "if not ...: return True, stats"
M_EarlyReturn ==
    /\ fn = "members" /\ pc = "start"
    /\ (ad_groups = <<>> \/ y360_groups = <<>> \/ y360_users = <<>>)
    /\ pc' = "returned"
    /\ stats' = MemberStats0
    /\ result' = [ok |-> TRUE, stats |-> MemberStats0]
    /\ UNCHANGED <<files, i, users_to_add, users_to_remove, calls, failures, remote_members>>
    /\ M_unchanged

\* the start of the loop without the three checks of the arguments
M_Start_Unguarded ==
    /\ fn = "members" /\ pc = "start"
    /\ stats' = MemberStats0
    /\ i' = 1
    /\ pc' = "m_loop"
    /\ UNCHANGED <<files, result, users_to_add, users_to_remove, calls, failures,
                   remote_members>>
    /\ M_unchanged

\* the two indexes are built, the loop over y360_groups begins
M_Start ==
    /\ fn = "members" /\ pc = "start"
    /\ ad_groups /= <<>> /\ y360_groups /= <<>> /\ y360_users /= <<>>
    /\ stats' = MemberStats0
    /\ i' = 1
    /\ pc' = "m_loop"
    /\ UNCHANGED <<files, result, users_to_add, users_to_remove, calls, failures,
                   remote_members>>
    /\ M_unchanged

\* the test of the prefix meets a target group whose externalId is None:
\* AttributeError leaves the function
M_RaiseAtTag ==
    /\ fn = "members" /\ pc = "m_loop" /\ i <= Len(y360_groups)
    /\ TagTestRaises(y360_groups[i])
    /\ pc' = "raised"
    /\ UNCHANGED <<files, i, stats, result, users_to_add, users_to_remove, calls,
                   failures, remote_members>>
    /\ M_unchanged

\* "if not external_id.startswith('DDG;'): continue"
M_SkipUntagged ==
    /\ fn = "members" /\ pc = "m_loop" /\ i <= Len(y360_groups)
    /\ ~TagTestRaises(y360_groups[i])
    /\ ~IsTagged(Get(y360_groups[i].externalId, <<>>))
    /\ i' = i + 1
    /\ UNCHANGED <<files, pc, stats, result, users_to_add, users_to_remove, calls,
                   failures, remote_members>>
    /\ M_unchanged

\* whether a tagged target group has a source group: its externalId has a
\* suffix to split off and ad_groups_by_guid has the suffix
HasAdGroup(y360_group) ==
    LET object_guid == GuidOfExternalId(Get(y360_group.externalId, <<>>))
    IN object_guid /= IndexError /\ object_guid \in AdObjectGuids(ad_groups)

\* ad_group of a target group that has one
AdGroupOf(y360_group) ==
    AdGroupByGuid(ad_groups, GuidOfExternalId(Get(y360_group.externalId, <<>>)))

\* the skip of a tagged group without source group that reads its members
M_SkipUnmatched_ReadsMembers ==
    /\ fn = "members" /\ pc = "m_loop" /\ i <= Len(y360_groups)
    /\ ~TagTestRaises(y360_groups[i])
    /\ IsTagged(Get(y360_groups[i].externalId, <<>>))
    /\ ~HasAdGroup(y360_groups[i])
    /\ stats' = Bump(Bump(stats, "y360_groups_processed"), "skipped_groups_count")
    /\ calls' = Append(calls, Call("members", y360_groups[i].id, None, "ok"))
    /\ i' = i + 1
    /\ UNCHANGED <<files, pc, result, users_to_add, users_to_remove, failures,
                   remote_members>>
    /\ M_unchanged

\* a tagged group without source group: counted as skipped
M_SkipUnmatched ==
    /\ fn = "members" /\ pc = "m_loop" /\ i <= Len(y360_groups)
    /\ ~TagTestRaises(y360_groups[i])
    /\ IsTagged(Get(y360_groups[i].externalId, <<>>))
    /\ ~HasAdGroup(y360_groups[i])
    /\ stats' = Bump(Bump(stats, "y360_groups_processed"), "skipped_groups_count")
    /\ i' = i + 1
    /\ UNCHANGED <<files, pc, result, users_to_add, users_to_remove, calls, failures,
                   remote_members>>
    /\ M_unchanged

\* a tagged and matched group is the one the next four steps work on
Matched ==
    /\ fn = "members" /\ pc = "m_loop" /\ i <= Len(y360_groups)
    /\ ~TagTestRaises(y360_groups[i])
    /\ IsTagged(Get(y360_groups[i].externalId, <<>>))
    /\ HasAdGroup(y360_groups[i])

Found(st) == Bump(Bump(st, "y360_groups_processed"), "ad_groups_found")

ReadCall(res) == Call("members", y360_groups[i].id, None, res)

\* get_group_members_by_api failed: the group is given up
M_ReadFailed ==
    /\ Matched
    /\ "fail" \in ReadAnswers(y360_groups[i].id)
    /\ calls' = Append(calls, ReadCall("fail"))
    /\ failures' = failures + 1
    /\ stats' = Bump(Found(stats), "errors_count")
    /\ i' = i + 1
    /\ UNCHANGED <<files, pc, result, users_to_add, users_to_remove, remote_members>>
    /\ M_unchanged

\* the member list was read and one of the members is not in the index of
\* the users (or has no nickname): AttributeError leaves the function
M_Raise ==
    /\ Matched
    /\ "ok" \in ReadAnswers(y360_groups[i].id)
    /\ LET members == remote_members[y360_groups[i].id]
       IN \E k \in 1..Len(members) : MemberRaises(members[k], y360_users)
    /\ calls' = Append(calls, ReadCall("ok"))
    /\ files' = SaveGroupMembersToCsv(files, y360_groups[i],
                                      remote_members[y360_groups[i].id])
    /\ stats' = Found(stats)
    /\ pc' = "raised"
    /\ UNCHANGED <<i, result, users_to_add, users_to_remove, failures, remote_members>>
    /\ M_unchanged

\* the member list was read and no file gave a member, and the record of
\* the source group has no key displayName: the warning subscripts it,
\* KeyError leaves the function
M_RaiseNoName ==
    /\ Matched
    /\ "ok" \in ReadAnswers(y360_groups[i].id)
    /\ LET members == remote_members[y360_groups[i].id]
       IN \A k \in 1..Len(members) : ~MemberRaises(members[k], y360_users)
    /\ AdGroupOf(y360_groups[i]).displayName = Absent
    /\ calls' = Append(calls, ReadCall("ok"))
    /\ files' = SaveGroupMembersToCsv(files, y360_groups[i],
                                      remote_members[y360_groups[i].id])
    /\ stats' = Found(stats)
    /\ pc' = "raised"
    /\ UNCHANGED <<i, result, users_to_add, users_to_remove, failures, remote_members>>
    /\ M_unchanged

\* the member list was read and, if diagnostics are on, saved; the members
\* file is missing or empty
M_SkipNoFile ==
    /\ Matched
    /\ "ok" \in ReadAnswers(y360_groups[i].id)
    /\ LET members == remote_members[y360_groups[i].id]
       IN \A k \in 1..Len(members) : ~MemberRaises(members[k], y360_users)
    /\ AdGroupOf(y360_groups[i]).displayName /= Absent
    /\ files' = SaveGroupMembersToCsv(files, y360_groups[i],
                                      remote_members[y360_groups[i].id])
    /\ GetGroupMembersFromFile(AdGroupOf(y360_groups[i]), files') = <<>>
    /\ calls' = Append(calls, ReadCall("ok"))
    /\ stats' = Bump(Found(stats), "skipped_groups_count")
    /\ i' = i + 1
    /\ UNCHANGED <<pc, result, users_to_add, users_to_remove, failures, remote_members>>
    /\ M_unchanged

\* the member list was read and, if diagnostics are on, saved; then the
\* file was read: users_to_add and users_to_remove
M_Compare ==
    /\ Matched
    /\ "ok" \in ReadAnswers(y360_groups[i].id)
    /\ files' = SaveGroupMembersToCsv(files, y360_groups[i],
                                      remote_members[y360_groups[i].id])
    /\ LET members == remote_members[y360_groups[i].id]
           emails == GetGroupMembersFromFile(AdGroupOf(y360_groups[i]), files')
       IN /\ \A k \in 1..Len(members) : ~MemberRaises(members[k], y360_users)
          /\ emails /= <<>>
          /\ LET cmp == CompareMembers(emails, members, y360_users)
             IN /\ users_to_add' = cmp.add
                /\ users_to_remove' = cmp.remove
                /\ stats' = [Found(stats) EXCEPT
                                !.users_not_found_count = @ + cmp.not_found]
    /\ calls' = Append(calls, ReadCall("ok"))
    /\ pc' = "m_apply"
    /\ UNCHANGED <<i, result, failures, remote_members>>
    /\ M_unchanged

\* one turn of "for user_info in users_to_add": add_member_to_group_by_api
M_Add ==
    /\ fn = "members" /\ pc = "m_apply" /\ users_to_add /= {}
    /\ \E user_info \in users_to_add :
         /\ users_to_add' = users_to_add \ {user_info}
         /\ \E res \in AddAnswers(dry_run) :
              LET group_id == y360_groups[i].id
              IN /\ calls' = Logged(Call("add", group_id, user_info.user_id, res), res)
                 /\ failures' = Failed(res)
                 /\ stats' = AddCounted(stats, res)
                 /\ remote_members' =
                        IF res = "ok"
                        THEN ServiceAddMember(remote_members, group_id, user_info.user_id)
                        ELSE remote_members
    /\ UNCHANGED <<files, pc, i, result, users_to_remove>>
    /\ M_unchanged

\* a removal that does not wait for the additions to be worked off
M_Remove_BeforeAdds ==
    /\ fn = "members" /\ pc = "m_apply"
    /\ users_to_remove /= <<>>
    /\ LET user_info == Head(users_to_remove)
           group_id == y360_groups[i].id
       IN \E res \in RemoveAnswers(dry_run) :
            /\ calls' = Logged(Call("remove", group_id, user_info.user_id, res), res)
            /\ failures' = Failed(res)
            /\ stats' = RemoveCounted(stats, res)
            /\ remote_members' =
                   IF res = "ok"
                   THEN ServiceDeleteMember(remote_members, group_id, user_info.user_id)
                   ELSE remote_members
    /\ users_to_remove' = Tail(users_to_remove)
    /\ UNCHANGED <<files, pc, i, result, users_to_add>>
    /\ M_unchanged

\* one turn of "for user_info in users_to_remove":
\* delete_member_from_group_by_api
M_Remove ==
    /\ fn = "members" /\ pc = "m_apply" /\ users_to_add = {}
    /\ users_to_remove /= <<>>
    /\ LET user_info == Head(users_to_remove)
           group_id == y360_groups[i].id
       IN \E res \in RemoveAnswers(dry_run) :
            /\ calls' = Logged(Call("remove", group_id, user_info.user_id, res), res)
            /\ failures' = Failed(res)
            /\ stats' = RemoveCounted(stats, res)
            /\ remote_members' =
                   IF res = "ok"
                   THEN ServiceDeleteMember(remote_members, group_id, user_info.user_id)
                   ELSE remote_members
    /\ users_to_remove' = Tail(users_to_remove)
    /\ UNCHANGED <<files, pc, i, result, users_to_add>>
    /\ M_unchanged

\* both lists are worked off: the next group
M_NextGroup ==
    /\ fn = "members" /\ pc = "m_apply"
    /\ users_to_add = {} /\ users_to_remove = <<>>
    /\ i' = i + 1
    /\ pc' = "m_loop"
    /\ UNCHANGED <<files, stats, result, users_to_add, users_to_remove, calls, failures,
                   remote_members>>
    /\ M_unchanged

\* "success = stats['errors_count'] == 0; return success, stats"
M_Return ==
    /\ fn = "members" /\ pc = "m_loop" /\ i > Len(y360_groups)
    /\ result' = [ok |-> SuccessFlag(stats), stats |-> stats]
    /\ pc' = "returned"
    /\ UNCHANGED <<files, i, stats, users_to_add, users_to_remove, calls, failures,
                   remote_members>>
    /\ M_unchanged

----------------------------------------------------------------------------
(* The snapshots a run starts from *)

G1 == <<49>>
G2 == <<50>>
NameA == <<65>>
NameB == <<66>>
MailA == <<97, 64, 120>>
LabelA == <<97>>
DescD == <<100>>

\* a record as get_ldap_dynamic_groups builds it: an attribute the entry
\* lacks is None, an attribute that ATTRIB_GROUP_LIST does not name is a
\* missing key (Absent), and a string is stripped, so that it may be ''
AdGroup(guid, name, mail, desc) ==
    [objectGUID |-> guid, displayName |-> name, mail |-> mail, description |-> desc]

\* a group as the service lists it
Y360Group(id, ext, name, label, desc) ==
    [id |-> id, externalId |-> ext, name |-> name, label |-> label,
     description |-> desc]

\* the source groups a search may return, in the order it returns them;
\* get_ldap_dynamic_groups takes every entry, two entries with the same
\* objectGUID as well
AdGroupPool ==
    << AdGroup(G1, NameA, MailA, None), AdGroup(G1, NameB, MailA, DescD),
       AdGroup(G1, NameA, <<97>>, Absent), AdGroup(None, NameA, MailA, None),
       AdGroup(G2, NameA, MailA, None), AdGroup(G2, None, MailA, None),
       AdGroup(G2, NameA, None, None), AdGroup(G2, Absent, MailA, None),
       AdGroup(<<>>, NameA, MailA, None) >>

\* the target groups the service may list, in the order it lists them
Y360GroupPool ==
    << Y360Group(0, Absent, NameA, LabelA, Absent),
       Y360Group(0, MakeExternalId(G1), NameA, LabelA, Absent),
       Y360Group(0, MakeExternalId(G1), NameB, <<122>>, DescD),
       Y360Group(0, MakeExternalId(G2), NameA, LabelA, None),
       Y360Group(0, TagPrefix, NameA, LabelA, Absent),
       Y360Group(0, <<88, 68, 71, 59, 49>>, NameA, LabelA, Absent),
       Y360Group(0, <<68, 68, 71>>, NameA, LabelA, Absent),
       Y360Group(0, None, NameA, LabelA, Absent) >>

\* the service numbers its groups
WithIds(groups) == [k \in 1..Len(groups) |-> [groups[k] EXCEPT !.id = k]]

NoFiles == [n \in {} |-> <<>>]

InitCommon ==
    /\ dry_run \in BOOLEAN
    /\ pc = "start"
    /\ i = 0
    /\ groups_to_delete = <<>>
    /\ users_to_add = {}
    /\ users_to_remove = <<>>
    /\ stats = GroupStats0
    /\ result = NoResult
    /\ calls = <<>>
    /\ failures = 0
    /\ pass = 1
    /\ prev = NoResult
    /\ run1 = [refetched |-> (y360_groups = remote_groups)]
    /\ retries = 0
    /\ remote_pages = <<>> /\ current_page = 1 /\ last_page = 1
    /\ fetched = <<>> /\ all_users = <<>> /\ all_users_get_timestamp = 0
    /\ now = 0 /\ force = FALSE
    /\ member_type = None /\ user_arg = None

\* sync_ad_groups_to_y360 on a fetched pair of snapshots
InitGroups ==
    /\ fn = "groups"
    /\ ad_groups \in SubLists(AdGroupPool, MaxAd)
    /\ y360_groups \in {WithIds(l) : l \in SubLists(Y360GroupPool, MaxY360)}
    /\ remote_groups = y360_groups
    /\ next_id = Len(y360_groups) + 1
    /\ remote_members = [id \in 1..Len(y360_groups) |-> <<>>]
    /\ y360_users = <<>>
    /\ files = NoFiles
    /\ enable_diagnostics = FALSE
    /\ y360_group_members_dir = "./y360_diagnostics"
    /\ InitCommon

S1 == AdGroup(G1, <<65, 32, 66>>, MailA, None)
S2 == AdGroup(G2, NameB, MailA, None)
\* a record built from an ATTRIB_GROUP_LIST without displayName and cn
S3 == AdGroup(G2, Absent, MailA, None)

\* a name that save_group_members_to_csv turns into the name of the
\* members file of S1: the words of FilePrefix with spaces, and 'A B'
NameOfFileS1 ==
    <<1043, 1088, 1091, 1087, 1087, 1072, 32, 1088, 1072, 1089, 1089, 1099,
      1083, 1082, 1080, 32, 65, 32, 66>>

MemberGroupPool ==
    << Y360Group(0, MakeExternalId(G2), NameA, LabelA, Absent),
       Y360Group(0, MakeExternalId(G1), NameOfFileS1, LabelA, Absent),
       Y360Group(0, TagPrefix, NameA, LabelA, Absent),
       Y360Group(0, Absent, NameA, LabelA, Absent),
       Y360Group(0, MakeExternalId(G2), NameB, LabelA, Absent),
       Y360Group(0, None, NameA, LabelA, Absent) >>

MaxMembers == 2
MaxEmails == 2

\* whether sync_group_members will come to a target group of this source group
SomeGroupOf(ad_group, ad, y360, users) ==
    /\ users /= <<>>
    /\ ad_group \in Range(ad)
    /\ \E k \in 1..Len(y360) :
         Get(y360[k].externalId, <<>>) = MakeExternalId(ad_group.objectGUID)

\* sync_group_members on fetched snapshots.  Every group of the service has
\* the same members; S1 has a members file, of the e-mails a@x, s@x and
\* B@x, and S2 and S3 have none, and the fourth source group has the
\* objectGUID ''; members and files that no run reads are
\* left empty.  The diagnostics are off, or on and written to the directory
\* of the members files (".") or to another one; they are off when the run
\* saves no file
InitMembers ==
    /\ fn = "members"
    /\ ad_groups \in SubLists(<<S1, S2, S3, AdGroup(<<>>, NameA, MailA, None)>>, MaxAd)
    /\ y360_groups \in {WithIds(l) : l \in SubLists(MemberGroupPool, MaxY360)}
    /\ y360_users \in {<<>>, <<U1, U2, U3>>, <<U1, U4>>}
    /\ remote_groups = y360_groups
    /\ next_id = Len(y360_groups) + 1
    /\ \E members \in SubLists(<<AsMember(U1), AsMember(U2), AsMember(Robot)>>,
                                MaxMembers),
          emails \in SubLists(<< <<97, 64, 120>>, <<115, 64, 120>>, <<66, 64, 120>> >>,
                               MaxEmails) :
         /\ ~SomeGroupOf(S1, ad_groups, y360_groups, y360_users) => emails = <<>>
         /\ (/\ ~SomeGroupOf(S1, ad_groups, y360_groups, y360_users)
             /\ ~SomeGroupOf(S2, ad_groups, y360_groups, y360_users)
             /\ ~SomeGroupOf(S3, ad_groups, y360_groups, y360_users))
                => members = <<>>
         /\ remote_members = [id \in 1..Len(y360_groups) |-> members]
         /\ files = [n \in {MembersFileName(S1)} |-> emails]
    /\ \E d \in {<<FALSE, "./y360_diagnostics">>, <<TRUE, "./y360_diagnostics">>,
                 <<TRUE, ".">>} :
         /\ enable_diagnostics = d[1]
         /\ y360_group_members_dir = d[2]
         /\ (/\ ~SomeGroupOf(S1, ad_groups, y360_groups, y360_users)
             /\ ~SomeGroupOf(S2, ad_groups, y360_groups, y360_users)
             /\ ~SomeGroupOf(S3, ad_groups, y360_groups, y360_users))
                => ~d[1]
    /\ InitCommon

Init == InitGroups \/ InitMembers

----------------------------------------------------------------------------
(* The run: one call of one of the two functions *)

\* what get_all_groups_from_api360 returns: the groups of the service, or
\* the empty list when a request for a page fails
FetchedGroups == {remote_groups, <<>>}

Next ==
    \/ G_EarlyReturn \/ G_Start \/ G_Skip \/ G_UpToDate \/ G_Patch \/ G_Create
    \/ G_Raise \/ G_FindDeletions \/ G_Delete \/ G_Return
    \/ M_EarlyReturn \/ M_Start \/ M_RaiseAtTag \/ M_SkipUntagged
    \/ M_SkipUnmatched
    \/ M_ReadFailed \/ M_Raise \/ M_RaiseNoName \/ M_SkipNoFile \/ M_Compare
    \/ M_Add \/ M_Remove \/ M_NextGroup \/ M_Return

Spec == Init /\ [][Next]_vars

----------------------------------------------------------------------------
(* The script: __main__ is run, and then run once more *)

\* steps 1 to 3 of the first run: the users and the source groups are
\* fetched and are not empty, the target groups are fetched;
\* sync_ad_groups_to_y360 is called.  Every group of the service has the
\* same member, and the group named NameA has a members file
MainInit ==
    /\ fn = "groups"
    /\ ad_groups \in
         SubLists(<< AdGroup(G1, NameB, MailA, DescD), AdGroup(G2, NameA, MailA, None),
                     AdGroup(G2, NameA, None, None), AdGroup(G2, Absent, MailA, None) >>,
                  MaxAd) \ {<<>>}
    /\ y360_users = <<U1, U2, U3>>
    /\ remote_groups \in
         {WithIds(l) : l \in
            SubLists(<< Y360Group(0, MakeExternalId(G1), NameA, LabelA, Absent),
                        Y360Group(0, MakeExternalId(G2), NameA, LabelA, Absent),
                        Y360Group(0, TagPrefix, NameA, LabelA, Absent),
                        Y360Group(0, Absent, NameA, LabelA, Absent),
                        Y360Group(0, None, NameA, LabelA, Absent) >>,
                     MaxY360)}
    /\ y360_groups \in FetchedGroups
    /\ next_id = Len(remote_groups) + 1
    /\ \E members \in {<<AsMember(U2)>>, <<AsMember(Robot)>>} :
         remote_members = [id \in 1..Len(remote_groups) |-> members]
    /\ files = [n \in {FilePrefix \o NameA} |-> <<MailA>>]
    /\ enable_diagnostics = FALSE
    /\ y360_group_members_dir = "./y360_diagnostics"
    /\ InitCommon

\* the call of sync_group_members on the snapshot of the group phase
Main_MembersOnOldSnapshot ==
    /\ fn = "groups" /\ pc = "returned"
    /\ prev' = [dry |-> dry_run, ok |-> result.ok, stats |-> result.stats,
                failures |-> failures, y360_groups |-> y360_groups,
                remote_members |-> remote_members, files |-> files]
    /\ fn' = "members"
    /\ pc' = "start"
    /\ i' = 0
    /\ stats' = MemberStats0
    /\ result' = NoResult
    /\ calls' = <<>>
    /\ UNCHANGED <<dry_run, ad_groups, y360_groups, y360_users, files, remote_groups,
                   remote_members, next_id, groups_to_delete, users_to_add,
                   users_to_remove, failures, pass, retries, remote_pages,
                   current_page, last_page, fetched, all_users,
                   all_users_get_timestamp, now, force,
                   member_type, user_arg,
                   enable_diagnostics, y360_group_members_dir, run1>>

\* steps 5 and 6: sync_ad_groups_to_y360 has returned (success, stats), the
\* target groups are fetched again and sync_group_members is called on them
Main_Members ==
    /\ fn = "groups" /\ pc = "returned"
    /\ y360_groups' \in FetchedGroups
    /\ prev' = [dry |-> dry_run, ok |-> result.ok, stats |-> result.stats,
                failures |-> failures, y360_groups |-> y360_groups,
                remote_members |-> remote_members, files |-> files]
    /\ fn' = "members"
    /\ pc' = "start"
    /\ i' = 0
    /\ stats' = MemberStats0
    /\ result' = NoResult
    /\ calls' = <<>>
    /\ UNCHANGED <<dry_run, ad_groups, y360_users, files, remote_groups,
                   remote_members, next_id, groups_to_delete, users_to_add,
                   users_to_remove, failures, pass, retries, remote_pages,
                   current_page, last_page, fetched, all_users,
                   all_users_get_timestamp, now, force,
                   member_type, user_arg,
                   enable_diagnostics, y360_group_members_dir, run1>>

\* The script has ended, with the return of sync_group_members or with an
\* exception that left one of the two functions, and is started again, in
\* either mode: the directory and the users are as they were, the target
\* groups are fetched (step 3) and sync_ad_groups_to_y360 is called on
\* what the fetch returned.  run1 keeps how the two functions of the first
\* run went: the mode, and for each how it ended, its statistics, the calls
\* of it that failed and the snapshot it was given; and whether the fetch
\* of either run returned the groups of the service
Main_Restart ==
    /\ pass = 1
    /\ \/ fn = "members" /\ pc \in {"returned", "raised"}
       \/ fn = "groups" /\ pc = "raised"
    /\ dry_run' \in BOOLEAN
    /\ y360_groups' \in FetchedGroups
    /\ run1' =
         [dry |-> dry_run,
          refetched |-> (y360_groups' = remote_groups),
          failures |-> failures,
          groups |->
             IF fn = "groups"
             THEN [ended |-> pc, stats |-> stats, failures |-> failures,
                   y360_groups |-> y360_groups, fetched |-> run1.refetched]
             ELSE [ended |-> "returned", stats |-> prev.stats,
                   failures |-> prev.failures, y360_groups |-> prev.y360_groups,
                   fetched |-> run1.refetched],
          members |->
             IF fn = "groups"
             THEN [ended |-> "not called", stats |-> MemberStats0, failures |-> 0,
                   y360_groups |-> <<>>, remote_members |-> <<>>, files |-> NoFiles]
             ELSE [ended |-> pc, stats |-> stats,
                   failures |-> failures - prev.failures,
                   y360_groups |-> y360_groups,
                   remote_members |-> prev.remote_members, files |-> prev.files]]
    /\ pass' = 2
    /\ fn' = "groups"
    /\ pc' = "start"
    /\ i' = 0
    /\ groups_to_delete' = <<>>
    /\ users_to_add' = {}
    /\ users_to_remove' = <<>>
    /\ stats' = GroupStats0
    /\ result' = NoResult
    /\ calls' = <<>>
    /\ prev' = NoResult
    /\ UNCHANGED <<ad_groups, y360_users, files, remote_groups, remote_members,
                   next_id, failures, retries, remote_pages,
                   current_page, last_page, fetched, all_users,
                   all_users_get_timestamp, now, force, member_type, user_arg,
                   enable_diagnostics, y360_group_members_dir>>

MainNext ==
    \/ G_Start \/ G_Skip \/ G_UpToDate \/ G_Patch \/ G_Create
    \/ G_Raise \/ G_FindDeletions \/ G_Delete \/ G_Return
    \/ Main_Members
    \/ M_EarlyReturn \/ M_Start \/ M_RaiseAtTag \/ M_SkipUntagged
    \/ M_SkipUnmatched
    \/ M_ReadFailed \/ M_Raise \/ M_RaiseNoName \/ M_SkipNoFile \/ M_Compare
    \/ M_Add \/ M_Remove \/ M_NextGroup \/ M_Return
    \/ Main_Restart

SpecMain == MainInit /\ [][MainNext]_vars

----------------------------------------------------------------------------
(* The remote wrappers: one invocation and its HTTP requests *)

MAX_RETRIES == 3
RETRIES_DELAY_SEC == 2

\* the requests of one invocation that the model follows
MaxAttempts == 5

Wrappers ==
    {"create_group_by_api", "patch_group_by_api", "delete_group_by_api",
     "add_member_to_group_by_api", "delete_member_from_group_by_api",
     "get_group_members_by_api", "create_user_by_api", "patch_user_by_api"}

\* every wrapper catches what the request raises inside the loop
TryAroundLoop_Never(wrapper) == FALSE

\* whether "try" stands around "while True", so that an exception leaves
\* the loop; in the two wrappers of users it stands inside the loop
TryAroundLoop(wrapper) ==
    wrapper \notin {"create_user_by_api", "patch_user_by_api"}

\* "valid_member_types" of the two wrappers of members
valid_member_types == {"user", "group", "department"}

\* a wrapper is called: "retries = 1", success = False, nothing requested;
\* the wrappers of members are given a type of member, create_user_by_api
\* a dictionary that has or lacks the keys its messages read
RetryInit ==
    /\ fn \in Wrappers
    /\ pc = "request"
    /\ retries = 1
    /\ calls = <<>>
    /\ result = NoResult
    /\ dry_run = FALSE
    /\ ad_groups = <<>> /\ y360_groups = <<>> /\ y360_users = <<>>
    /\ files = NoFiles
    /\ remote_groups = <<>> /\ remote_members = <<>> /\ next_id = 1
    /\ i = 0
    /\ groups_to_delete = <<>> /\ users_to_add = {} /\ users_to_remove = <<>>
    /\ stats = GroupStats0
    /\ failures = 0 /\ pass = 1 /\ prev = NoResult /\ run1 = NoResult
    /\ enable_diagnostics = FALSE /\ y360_group_members_dir = "./y360_diagnostics"
    /\ remote_pages = <<>> /\ current_page = 1 /\ last_page = 1
    /\ fetched = <<>> /\ all_users = <<>> /\ all_users_get_timestamp = 0
    /\ now = 0 /\ force = FALSE
    /\ IF fn \in {"add_member_to_group_by_api", "delete_member_from_group_by_api"}
       THEN member_type \in valid_member_types \cup {"robot"}
       ELSE member_type = None
    /\ IF fn = "create_user_by_api"
       THEN user_arg \in {[nickname |-> <<97>>,
                       name |-> [first |-> <<65>>, last |-> <<66>>]],
                      [nickname |-> <<97>>, name |-> [first |-> <<65>>]],
                      [name |-> [first |-> <<65>>, last |-> <<66>>]],
                      [k \in {} |-> None]}
       ELSE user_arg = None

W_unchanged == UNCHANGED <<dry_run, ad_groups, y360_groups, y360_users, files,
                           remote_groups, remote_members, next_id, fn, i,
                           groups_to_delete, users_to_add, users_to_remove,
                           stats, failures, pass, prev, remote_pages,
                           current_page, last_page, fetched, all_users,
                           all_users_get_timestamp, force,
                           member_type, user_arg,
                   enable_diagnostics, y360_group_members_dir, run1>>

\* "if member_type not in valid_member_types" of the wrappers of members
InvalidMemberType ==
    /\ fn \in {"add_member_to_group_by_api", "delete_member_from_group_by_api"}
    /\ member_type \notin valid_member_types

\* whether the message that names the user raises KeyError: it reads
\* user['nickname'], user['name']['last'] and user['name']['first']
MessageRaises ==
    /\ fn = "create_user_by_api"
    /\ ~(/\ "nickname" \in DOMAIN user_arg
         /\ "name" \in DOMAIN user_arg
         /\ {"last", "first"} \subseteq DOMAIN user_arg.name)

\* the type of member is not valid: (False, {}) before any request
W_BadType ==
    /\ fn \in Wrappers /\ pc = "request"
    /\ InvalidMemberType
    /\ result' = [ok |-> FALSE, data |-> "empty"]
    /\ pc' = "returned"
    /\ UNCHANGED <<calls, retries, now>>
    /\ W_unchanged

\* the request is answered with HTTP 200: success, the answer is returned;
\* patch_user_by_api returns success alone; in create_user_by_api the
\* message of success may raise, inside "try", and the loop goes round
W_Ok ==
    /\ fn \in Wrappers /\ pc = "request" /\ Len(calls) < MaxAttempts
    /\ ~InvalidMemberType
    /\ calls' = Append(calls, Call("request", 0, None, "ok"))
    /\ IF MessageRaises
       THEN UNCHANGED <<pc, result>>
       ELSE /\ result' = IF fn = "patch_user_by_api" THEN TRUE
                         ELSE [ok |-> TRUE, data |-> "json"]
            /\ pc' = "returned"
    /\ UNCHANGED <<retries, now>>
    /\ W_unchanged

\* another status and retries < MAX_RETRIES: the wrapper sleeps
\* RETRIES_DELAY_SEC * retries seconds, retries += 1, again
W_Retry ==
    /\ fn \in Wrappers /\ pc = "request" /\ Len(calls) < MaxAttempts
    /\ ~InvalidMemberType
    /\ retries < MAX_RETRIES
    /\ calls' = Append(calls, Call("request", 0, None, "status"))
    /\ retries' = retries + 1
    /\ now' = now + RETRIES_DELAY_SEC * retries
    /\ UNCHANGED <<pc, result>>
    /\ W_unchanged

\* another status and no retry left: break, the failure is returned;
\* patch_user_by_api returns success alone; in create_user_by_api the
\* message of the failure may raise before "break", and the loop goes round
W_GiveUp ==
    /\ fn \in Wrappers /\ pc = "request" /\ Len(calls) < MaxAttempts
    /\ ~InvalidMemberType
    /\ ~(retries < MAX_RETRIES)
    /\ calls' = Append(calls, Call("request", 0, None, "status"))
    /\ IF MessageRaises
       THEN UNCHANGED <<pc, result>>
       ELSE /\ result' = IF fn = "patch_user_by_api" THEN FALSE
                         ELSE [ok |-> FALSE, data |-> "empty"]
            /\ pc' = "returned"
    /\ UNCHANGED <<retries, now>>
    /\ W_unchanged

\* the request raises: "except" behind the loop returns the failure,
\* "except" inside the loop logs the exception and the loop goes round
W_Raise ==
    /\ fn \in Wrappers /\ pc = "request" /\ Len(calls) < MaxAttempts
    /\ ~InvalidMemberType
    /\ calls' = Append(calls, Call("request", 0, None, "raise"))
    /\ IF TryAroundLoop(fn)
       THEN /\ result' = [ok |-> FALSE, data |-> "empty"]
            /\ pc' = "returned"
       ELSE UNCHANGED <<pc, result>>
    /\ UNCHANGED <<retries, now>>
    /\ W_unchanged

RetryNext == W_BadType \/ W_Ok \/ W_Retry \/ W_GiveUp \/ W_Raise

SpecRetry == RetryInit /\ [][RetryNext]_vars

----------------------------------------------------------------------------
(* The paginated listings and the cache of the users *)

ALL_USERS_REFRESH_IN_MINUTES == 15

MaxPages == 2
MaxNow == 1352

\* The pages a listing may consist of.  The items are users as GET /users
\* gives them: the id is a string of digits (here the list of its digits,
\* which may begin with zeros),
\* isRobot may be missing; for GET /groups the same items stand for groups
RemotePages ==
    LET org   == <<1, 1, 3, 0, 0, 0, 0, 0, 0, 0, 0, 0, 0, 0, 0, 0>>
        next  == <<1, 1, 3, 0, 0, 0, 0, 0, 0, 0, 0, 0, 0, 0, 0, 1>>
        below == <<1, 1, 2, 9, 9, 9, 9, 9, 9, 9, 9, 9, 9, 9, 9, 9>>
        padded == <<0, 1, 1, 2, 9, 9, 9, 9, 9, 9, 9, 9, 9, 9, 9, 9, 9>>
        UA == [id |-> org, isRobot |-> FALSE]
        UB == [id |-> next]
        UR == [id |-> next, isRobot |-> TRUE]
        UL == [id |-> below, isRobot |-> FALSE]
        US == [id |-> padded]
        page == {<<>>, <<UA>>, <<UB>>, <<UR>>, <<UL>>, <<US, UA>>}
    IN UNION {[1..n -> page] : n \in 0..MaxPages}

\* what one page adds to the list: groups.extend(...) takes every item,
\* the loop over 'users' takes those with "not user.get('isRobot') and
\* int(user['id']) >= 1130000000000000"
Kept(function, items) ==
    LET floor == <<1, 1, 3, 0, 0, 0, 0, 0, 0, 0, 0, 0, 0, 0, 0, 0>>
        \* int(s): the digits of the number, without the zeros in front
        IntOf(s) ==
            IF \A k \in 1..Len(s) : s[k] = 0 THEN <<>>
            ELSE SubSeq(s, CHOOSE k \in 1..Len(s) :
                                /\ s[k] /= 0
                                /\ \A m \in 1..(k - 1) : s[m] = 0,
                        Len(s))
        AtLeast(id) ==
            \/ Len(id) > Len(floor)
            \/ /\ Len(id) = Len(floor)
               /\ \/ id = floor
                  \/ \E k \in 1..Len(id) :
                        /\ id[k] > floor[k]
                        /\ \A m \in 1..(k - 1) : id[m] = floor[m]
        keep(user) == /\ ~("isRobot" \in DOMAIN user /\ user.isRobot)
                      /\ AtLeast(IntOf(user.id))
    IN IF function = "get_all_groups_from_api360" THEN items
       ELSE SelectSeq(items, keep)

\* the settings object is new: all_users = [], the timestamp is now()
FetchInit ==
    /\ fn \in {"get_all_groups_from_api360", "get_all_api360_users"}
    /\ pc = "idle"
    /\ remote_pages \in RemotePages
    /\ current_page = 1 /\ last_page = 1 /\ fetched = <<>>
    /\ all_users = <<>> /\ all_users_get_timestamp = 0 /\ now = 0
    /\ force = FALSE
    /\ member_type = None /\ user_arg = None
    /\ retries = 1
    /\ calls = <<>>
    /\ result = NoResult
    /\ dry_run = FALSE
    /\ ad_groups = <<>> /\ y360_groups = <<>> /\ y360_users = <<>>
    /\ files = NoFiles
    /\ remote_groups = <<>> /\ remote_members = <<>> /\ next_id = 1
    /\ i = 0
    /\ groups_to_delete = <<>> /\ users_to_add = {} /\ users_to_remove = <<>>
    /\ stats = GroupStats0
    /\ failures = 0 /\ pass = 1 /\ prev = NoResult /\ run1 = NoResult
    /\ enable_diagnostics = FALSE /\ y360_group_members_dir = "./y360_diagnostics"

F_unchanged == UNCHANGED <<dry_run, ad_groups, y360_groups, y360_users, files,
                           remote_groups, remote_members, next_id, fn, i,
                           groups_to_delete, users_to_add, users_to_remove,
                           stats, pass, prev, remote_pages,
                           member_type, user_arg,
                   enable_diagnostics, y360_group_members_dir, run1>>

\* time passes between two calls
Tick ==
    /\ pc \in {"idle", "returned"}
    /\ \E seconds \in {450, 451} :
            /\ now + seconds <= MaxNow
            /\ now' = now + seconds
    /\ UNCHANGED <<failures, pc, calls, result, retries, current_page, last_page, fetched,
                   all_users, all_users_get_timestamp, force>>
    /\ F_unchanged

\* get_all_groups_from_api360 is called: an empty list, page 1 of 1
GetAllGroups_Call ==
    /\ fn = "get_all_groups_from_api360" /\ pc \in {"idle", "returned"}
    /\ pc' = "page"
    /\ fetched' = <<>> /\ current_page' = 1 /\ last_page' = 1 /\ retries' = 1
    /\ calls' = <<>>
    /\ result' = NoResult
    /\ UNCHANGED <<failures, all_users, all_users_get_timestamp, now, force>>
    /\ F_unchanged

\* the call that serves an empty cache as it serves a filled one
GetAllUsers_Call_EmptyServed ==
    /\ fn = "get_all_api360_users" /\ pc \in {"idle", "returned"}
    /\ force' \in BOOLEAN
    /\ calls' = <<>>
    /\ IF \/ force'
          \/ now - all_users_get_timestamp > ALL_USERS_REFRESH_IN_MINUTES * 60
       THEN /\ pc' = "page"
            /\ fetched' = <<>> /\ current_page' = 1 /\ last_page' = 1
            /\ retries' = 1
            /\ result' = NoResult
       ELSE /\ pc' = "returned"
            /\ result' = all_users
            /\ UNCHANGED <<fetched, current_page, last_page, retries>>
    /\ UNCHANGED <<failures, all_users, all_users_get_timestamp, now>>
    /\ F_unchanged

\* get_all_api360_users(settings, force) is called: the cached list is
\* returned, or get_all_api360_users_from_api starts with page 1 of 1
GetAllUsers_Call ==
    /\ fn = "get_all_api360_users" /\ pc \in {"idle", "returned"}
    /\ force' \in BOOLEAN
    /\ calls' = <<>>
    /\ IF \/ Len(all_users) = 0
          \/ force'
          \/ now - all_users_get_timestamp > ALL_USERS_REFRESH_IN_MINUTES * 60
       THEN /\ pc' = "page"
            /\ fetched' = <<>> /\ current_page' = 1 /\ last_page' = 1
            /\ retries' = 1
            /\ result' = NoResult
       ELSE /\ pc' = "returned"
            /\ result' = all_users
            /\ UNCHANGED <<fetched, current_page, last_page, retries>>
    /\ UNCHANGED <<failures, all_users, all_users_get_timestamp, now>>
    /\ F_unchanged

\* the page is answered with HTTP 200: its items are taken over, the next
\* page is the current one and last_page is what the answer reports; when
\* a page follows, the next turn of the loop begins with "retries = 1"
Page_Ok ==
    /\ pc = "page" /\ current_page <= last_page
    /\ LET items == IF current_page <= Len(remote_pages)
                    THEN remote_pages[current_page] ELSE <<>>
       IN fetched' = fetched \o Kept(fn, items)
    /\ current_page' = current_page + 1
    /\ last_page' = Len(remote_pages)
    /\ retries' = IF current_page' <= last_page' THEN 1 ELSE retries
    /\ calls' = Append(calls, Call("get", current_page, None, "ok"))
    /\ UNCHANGED <<failures, pc, result, all_users, all_users_get_timestamp, now, force>>
    /\ F_unchanged

\* another status and retries < MAX_RETRIES: the function sleeps
\* RETRIES_DELAY_SEC * retries seconds, retries += 1, again; failures
\* counts the retried requests, at most MaxFailures are followed
Page_Retry ==
    /\ pc = "page" /\ current_page <= last_page
    /\ retries < MAX_RETRIES
    /\ now + RETRIES_DELAY_SEC * retries <= MaxNow
    /\ failures < MaxFailures
    /\ failures' = failures + 1
    /\ now' = now + RETRIES_DELAY_SEC * retries
    /\ retries' = retries + 1
    /\ calls' = Append(calls, Call("get", current_page, None, "status"))
    /\ UNCHANGED <<pc, result, current_page, last_page, fetched, all_users,
                   all_users_get_timestamp, force>>
    /\ F_unchanged

\* another status and no retry left, or a RequestException: has_errors
Page_Fail ==
    /\ pc = "page" /\ current_page <= last_page
    /\ \/ /\ ~(retries < MAX_RETRIES)
          /\ calls' = Append(calls, Call("get", current_page, None, "status"))
       \/ calls' = Append(calls, Call("get", current_page, None, "raise"))
    /\ pc' = "failed"
    /\ UNCHANGED <<failures, result, retries, current_page, last_page, fetched, all_users,
                   all_users_get_timestamp, now, force>>
    /\ F_unchanged

\* the return that hands out what was fetched before the error
Fetch_Return_Partial ==
    /\ \/ pc = "failed"
       \/ pc = "page" /\ current_page > last_page
    /\ result' = fetched
    /\ pc' = "returned"
    /\ IF fn = "get_all_api360_users"
       THEN all_users' = result' /\ all_users_get_timestamp' = now
       ELSE UNCHANGED <<all_users, all_users_get_timestamp>>
    /\ UNCHANGED <<failures, calls, retries, current_page, last_page, fetched, now, force>>
    /\ F_unchanged

\* "if has_errors: return []", else "return groups" / "return users";
\* get_all_api360_users stores the list and the time and returns the list
Fetch_Return ==
    /\ \/ pc = "failed"
       \/ pc = "page" /\ current_page > last_page
    /\ result' = IF pc = "failed" THEN <<>> ELSE fetched
    /\ pc' = "returned"
    /\ IF fn = "get_all_api360_users"
       THEN all_users' = result' /\ all_users_get_timestamp' = now
       ELSE UNCHANGED <<all_users, all_users_get_timestamp>>
    /\ UNCHANGED <<failures, calls, retries, current_page, last_page, fetched, now, force>>
    /\ F_unchanged

FetchNext ==
    \/ Tick \/ GetAllGroups_Call \/ GetAllUsers_Call
    \/ Page_Ok \/ Page_Retry \/ Page_Fail \/ Fetch_Return

SpecFetch == FetchInit /\ [][FetchNext]_vars

----------------------------------------------------------------------------
(* Properties *)

\* the premise of the statements that tell a source group by its objectGUID:
\* no two source groups share one (the identifier is unique in a directory)
DistinctGuids(groups) ==
    \A k, m \in 1..Len(groups) :
        (k /= m /\ Truthy(groups[k].objectGUID))
            => groups[k].objectGUID /= groups[m].objectGUID

MutatingOps == {"create", "patch", "delete", "add", "remove"}

\* the sync tag, written out
CarriesTag(y360_group) ==
    /\ y360_group.externalId /= Absent
    /\ Len(y360_group.externalId) >= 4
    /\ SubSeq(y360_group.externalId, 1, 4) = <<68, 68, 71, 59>>

\* what follows the first ';' of a tagged externalId
Suffix(y360_group) ==
    LET e == y360_group.externalId
        first == CHOOSE k \in 1..Len(e) : e[k] = 59 /\ \A m \in 1..(k - 1) : e[m] /= 59
    IN SubSeq(e, first + 1, Len(e))

\* a target group that has no source group: tagged, and its suffix is the
\* objectGUID of no source group that has one ("if object_guid:" keeps a
\* source group whose objectGUID is None, missing or '' out of
\* ad_object_guids and out of ad_groups_by_guid)
Orphan(y360_group) ==
    /\ CarriesTag(y360_group)
    /\ \A k \in 1..Len(ad_groups) :
            Truthy(ad_groups[k].objectGUID)
                => ad_groups[k].objectGUID /= Suffix(y360_group)

TargetsWithId(id) == {k \in 1..Len(y360_groups) : y360_groups[k].id = id}

\* C1: a group delete is issued, queued or counted only for target groups
\* that carry the prefix 'DDG;' and whose suffix is the objectGUID of no
\* source group, in live and in dry-run mode
C1_DeleteOnlyOrphans ==
    fn = "groups" =>
        /\ \A n \in 1..Len(calls) :
             calls[n].op = "delete" =>
                /\ TargetsWithId(calls[n].id) /= {}
                /\ \A k \in TargetsWithId(calls[n].id) : Orphan(y360_groups[k])
        /\ \A n \in 1..Len(groups_to_delete) :
                /\ TargetsWithId(groups_to_delete[n].id) /= {}
                /\ \A k \in TargetsWithId(groups_to_delete[n].id) :
                        Orphan(y360_groups[k])
        /\ stats.deleted_count + Len(groups_to_delete)
              <= Cardinality({k \in 1..Len(y360_groups) : Orphan(y360_groups[k])})

\* a pass that deleted an orphan and left another target group alone
C1_Witness ==
    /\ fn = "groups" /\ pc = "returned"
    /\ stats.deleted_count = 1
    /\ \E k \in 1..Len(y360_groups) : ~Orphan(y360_groups[k])
    /\ \E k \in 1..Len(y360_groups) :
            ~CarriesTag(y360_groups[k]) /\ y360_groups[k].externalId /= Absent

\* C2: in both functions no patch, delete, add or remove is addressed to a
\* target group whose externalId is absent or does not start with 'DDG;'
C2_NoCallToForeignGroup ==
    \A n \in 1..Len(calls) :
        calls[n].op \in {"patch", "delete", "add", "remove"} =>
            /\ TargetsWithId(calls[n].id) /= {}
            /\ \A k \in TargetsWithId(calls[n].id) : CarriesTag(y360_groups[k])

\* a membership pass that changed a tagged group next to a foreign one
C2_Witness ==
    /\ fn = "members" /\ pc = "returned"
    /\ \E n \in 1..Len(calls) : calls[n].op = "add"
    /\ \E n \in 1..Len(calls) : calls[n].op = "remove"
    /\ \E k \in 1..Len(y360_groups) : ~CarriesTag(y360_groups[k])

\* C3: in dry-run mode neither function issues a create, patch, delete,
\* add or remove
C3_DryRunCallsNothing ==
    dry_run => \A n \in 1..Len(calls) : calls[n].op \notin MutatingOps

\* a dry group pass that counted a create and a delete
C3_Witness ==
    /\ dry_run /\ fn = "groups" /\ pc = "returned"
    /\ stats.created_count >= 1
    /\ stats.deleted_count >= 1

\* C6: on every return path the returned flag is true exactly when the
\* returned errors_count is zero
C6_OkIffNoErrors ==
    pc = "returned" => (result.ok <=> result.stats.errors_count = 0)

\* a pass that returned with errors counted
C6_Witness ==
    /\ pc = "returned"
    /\ result.stats.errors_count >= 1
    /\ ~result.ok

\* the remote calls of the pass that did not do what they were asked
NotDone(c) == c.res = "fail" \/ (c.op = "delete" /\ c.res = "noop")

\* the function that has returned in the second run was given, in the
\* first run, the snapshot it was given now, and returned
SameSnapshot ==
    IF fn = "groups"
    THEN /\ run1.groups.ended = "returned"
         /\ y360_groups = run1.groups.y360_groups
    ELSE /\ run1.members.ended = "returned"
         /\ y360_groups = run1.members.y360_groups
         /\ prev.remote_members = run1.members.remote_members
         /\ prev.files = run1.members.files

\* what that function returned in the first run
Run1Stats == IF fn = "groups" THEN run1.groups.stats ELSE run1.members.stats

\* no remote call of that function failed, in the first run or in this one
BothCallsSucceeded ==
    IF fn = "groups"
    THEN run1.groups.failures = 0 /\ failures = run1.failures
    ELSE run1.members.failures = 0 /\ failures = prev.failures

\* C4 as stated: the statistics of a live pass equal those of the dry run
\* over the same snapshot, counter by counter
C4_LiveEqualsDryRun ==
    (pass = 2 /\ pc = "returned" /\ run1.dry /\ ~dry_run /\ SameSnapshot)
        => result.stats = Run1Stats

\* C4 as amended: they are equal when every remote call of the two passes
\* succeeds and reports its change as applied
C4_LiveEqualsDryRunWhenCallsSucceed ==
    (/\ pass = 2 /\ pc = "returned" /\ run1.dry /\ ~dry_run /\ SameSnapshot
     /\ BothCallsSucceeded)
        => result.stats = Run1Stats

\* a live group pass after a dry run, all calls done, with a create, a
\* patch and a delete
C4_Witness ==
    /\ pass = 2 /\ pc = "returned" /\ run1.dry /\ ~dry_run /\ SameSnapshot
    /\ BothCallsSucceeded
    /\ fn = "groups"
    /\ result.stats.created_count >= 1
    /\ result.stats.deleted_count >= 1
    /\ \E n \in 1..Len(calls) : calls[n].op = "patch"

\* the loops go on behind a failed call as behind a successful one: the
\* snapshots are as before, and the position moves to the next entity
GoesOn ==
    /\ UNCHANGED <<ad_groups, y360_groups, y360_users, files, dry_run, fn>>
    /\ pc' = pc
    /\ LET op == calls'[Len(calls) + 1].op
       IN CASE op \in {"create", "patch", "members"} ->
                    /\ i' = i + 1
                    /\ UNCHANGED <<groups_to_delete, users_to_add, users_to_remove>>
            [] op = "delete" ->
                    /\ groups_to_delete' = Tail(groups_to_delete)
                    /\ UNCHANGED <<i, users_to_add, users_to_remove>>
            [] op = "add" ->
                    /\ \E u \in users_to_add :
                            /\ u.user_id = calls'[Len(calls) + 1].data
                            /\ users_to_add' = users_to_add \ {u}
                    /\ UNCHANGED <<i, groups_to_delete, users_to_remove>>
            [] op = "remove" ->
                    /\ users_to_remove' = Tail(users_to_remove)
                    /\ UNCHANGED <<i, groups_to_delete, users_to_add>>

\* C5: a failed remote call adds one to errors_count and to no other
\* counter, and the loop goes on with the next entity as after a call that
\* succeeded; the pass that returns has visited every entity and counts one
\* error for each call that failed
C5_FailSoft ==
    /\ [][(Len(calls') > Len(calls) /\ calls'[Len(calls) + 1].res = "fail") =>
            /\ stats' = Bump(stats, "errors_count")
                \/ (calls'[Len(calls) + 1].op = "members"
                        /\ stats' = Bump(Found(stats), "errors_count"))
            /\ GoesOn]_vars
    /\ [](pc = "returned" =>
            result.stats.errors_count
                = Cardinality({n \in 1..Len(calls) : NotDone(calls[n])}))
    /\ [](pc = "returned" =>
            /\ groups_to_delete = <<>> /\ users_to_add = {} /\ users_to_remove = <<>>
            /\ fn = "groups" => (ad_groups = <<>> \/ i = Len(ad_groups) + 1)
            /\ fn = "members" =>
                    \/ ad_groups = <<>> \/ y360_groups = <<>> \/ y360_users = <<>>
                    \/ i = Len(y360_groups) + 1)

\* a pass in which a call failed and a later call was made and succeeded
C5_Witness ==
    /\ pc = "returned"
    /\ \E n, m \in 1..Len(calls) :
            /\ n < m
            /\ calls[n].res = "fail"
            /\ calls[m].op \in MutatingOps
            /\ calls[m].res = "ok"

\* C7 as stated: no exception leaves a pass of either function
C7_NoExceptionEscapes == pc /= "raised"

\* C8: after a live group pass over the groups of the service whose remote
\* calls all succeeded, the group pass of the next run over the unchanged
\* source list, whose groups have distinct objectGUIDs, and the target list
\* fetched from the service issues no call and counts no create, update or
\* delete
C8_SecondPassChangesNothing ==
    (/\ fn = "groups" /\ pass = 2 /\ DistinctGuids(ad_groups)
     /\ ~run1.dry /\ run1.groups.ended = "returned" /\ run1.groups.fetched
     /\ run1.groups.failures = 0 /\ run1.refetched) =>
        /\ calls = <<>>
        /\ stats.created_count = 0
        /\ stats.updated_count = 0
        /\ stats.deleted_count = 0
        /\ groups_to_delete = <<>>

\* the second pass returned after a first one that created, patched and
\* deleted
C8_Witness ==
    /\ fn = "groups" /\ pass = 2 /\ ~run1.dry /\ pc = "returned"
    /\ run1.groups.ended = "returned" /\ run1.groups.fetched
    /\ run1.groups.failures = 0 /\ run1.refetched /\ DistinctGuids(ad_groups)
    /\ run1.groups.stats.created_count >= 1
    /\ run1.groups.stats.updated_count >= 1
    /\ run1.groups.stats.deleted_count >= 1

\* C9: the handles of users_to_add and the lower-cased handles of
\* users_to_remove are disjoint
C9_AddRemoveHandlesDisjoint ==
    {u.nickname : u \in users_to_add}
        \cap {Lower(users_to_remove[k].nickname) : k \in 1..Len(users_to_remove)}
    = {}

\* a group with users to add and users to remove
C9_Witness ==
    /\ pc = "m_apply"
    /\ users_to_add /= {}
    /\ users_to_remove /= <<>>

\* every handle, primary or alias, is claimed by one target user only
UniqueHandles ==
    \A k, m \in 1..Len(y360_users) :
        k /= m => HandlesOf(y360_users[k]) \cap HandlesOf(y360_users[m]) = {}

\* C10: when every handle resolves to at most one target user, no user id
\* is in users_to_add and in users_to_remove of the same group
C10_AddRemoveUsersDisjoint ==
    UniqueHandles =>
        {u.user_id : u \in users_to_add}
            \cap {users_to_remove[k].user_id : k \in 1..Len(users_to_remove)}
        = {}

\* unique handles, a member with an alias, and both lists non-empty
C10_Witness ==
    /\ UniqueHandles
    /\ pc = "m_apply"
    /\ users_to_add /= {}
    /\ \E k \in 1..Len(users_to_remove) : users_to_remove[k].user_id = U1.id

----------------------------------------------------------------------------
(* The comparison of one group *)

\* the member list that get_group_members_by_api returns for the group at i
CurMembers == remote_members[y360_groups[i].id]

\* the e-mails of the members file of the source group of the group at i;
\* what a step read, after the diagnostics were saved, is the members file
\* among files'
CurEmails == GetGroupMembersFromFile(AdGroupOf(y360_groups[i]), files)

\* the step that builds users_to_add and users_to_remove of the group at i
Compared == pc = "m_loop" /\ pc' = "m_apply"

\* the state behind that step, before any add or remove
JustCompared ==
    /\ pc = "m_apply" /\ ~dry_run
    /\ calls /= <<>> /\ calls[Len(calls)].op = "members"

\* the aliases of a user that are in the source list and are not its nickname
SourceAliases(u, emails) ==
    {Lower(a) : a \in Range(AliasList(u))}
        \cap (AdNicknamesSet(emails) \ {Lower(u.nickname)})

\* every add call is made for an entry of users_to_add, which leaves the list
AddsComeFromList ==
    (Len(calls') > Len(calls) /\ calls'[Len(calls) + 1].op = "add") =>
        \E x \in users_to_add :
            /\ x.user_id = calls'[Len(calls) + 1].data
            /\ users_to_add' = users_to_add \ {x}

\* C11 as stated: a source handle that is an alias of a member is not in
\* users_to_add, and the member is not in it under any handle, so that no
\* add call is made for the member
C11_AliasOfMemberNotAdded ==
    [][/\ Compared =>
            \A u \in {v \in Range(y360_users) :
                        \E k \in 1..Len(CurMembers) : CurMembers[k].id = v.id} :
                SourceAliases(u, GetGroupMembersFromFile(AdGroupOf(y360_groups[i]),
                                                         files')) /= {} =>
                    /\ SourceAliases(u, GetGroupMembersFromFile(
                                            AdGroupOf(y360_groups[i]), files'))
                            \cap {x.nickname : x \in users_to_add'} = {}
                    /\ u.id \notin {x.user_id : x \in users_to_add'}
       /\ AddsComeFromList]_vars

\* C11 as amended: the same when no handle is claimed by two target users
C11_AliasOfMemberNotAddedWhenUnique ==
    [][/\ (Compared /\ UniqueHandles) =>
            \A u \in {v \in Range(y360_users) :
                        \E k \in 1..Len(CurMembers) : CurMembers[k].id = v.id} :
                SourceAliases(u, GetGroupMembersFromFile(AdGroupOf(y360_groups[i]),
                                                         files')) /= {} =>
                    /\ SourceAliases(u, GetGroupMembersFromFile(
                                            AdGroupOf(y360_groups[i]), files'))
                            \cap {x.nickname : x \in users_to_add'} = {}
                    /\ u.id \notin {x.user_id : x \in users_to_add'}
       /\ AddsComeFromList]_vars

\* unique handles, a member whose alias is in the source list, and another
\* source handle that is added
C11_Witness ==
    /\ JustCompared /\ UniqueHandles
    /\ \E u \in {v \in Range(y360_users) :
                        \E k \in 1..Len(CurMembers) : CurMembers[k].id = v.id} :
            SourceAliases(u, CurEmails) /= {}
    /\ users_to_add /= {}

\* C12 as stated: a member one of whose aliases is a source handle is not
\* placed in users_to_remove, even if its nickname is not a source handle
C12_AliasKeepsMember ==
    [][Compared =>
            \A u \in {v \in Range(y360_users) :
                        \E k \in 1..Len(CurMembers) : CurMembers[k].id = v.id} :
                SourceAliases(u, GetGroupMembersFromFile(AdGroupOf(y360_groups[i]),
                                                         files')) /= {} =>
                    u.id \notin {users_to_remove'[k].user_id :
                                    k \in 1..Len(users_to_remove')}]_vars

\* C13: users_to_remove lists, in the order of the member list, the members
\* whose lower-cased nickname is not a source handle, and no other member
C13_RemoveByNicknameOnly ==
    [][Compared =>
            /\ {users_to_remove'[k].user_id : k \in 1..Len(users_to_remove')}
                = {CurMembers[k].id :
                        k \in {n \in 1..Len(CurMembers) :
                                Lower(CurMembers[n].nickname)
                                    \notin AdNicknamesSet(
                                                GetGroupMembersFromFile(
                                                    AdGroupOf(y360_groups[i]),
                                                    files'))}}
            /\ \A k, m \in 1..Len(users_to_remove') :
                    k /= m => users_to_remove'[k].user_id /= users_to_remove'[m].user_id
            /\ \A k \in 1..Len(users_to_remove') :
                    \E n \in 1..Len(CurMembers) :
                        /\ CurMembers[n].id = users_to_remove'[k].user_id
                        /\ CurMembers[n].nickname = users_to_remove'[k].nickname]_vars

\* a member that is to be removed although one of its aliases is a source
\* handle, next to a member that stays
C13_Witness ==
    /\ JustCompared
    /\ \E u \in {v \in Range(y360_users) :
                        \E k \in 1..Len(CurMembers) : CurMembers[k].id = v.id} :
            /\ SourceAliases(u, CurEmails) /= {}
            /\ u.id \in {users_to_remove[k].user_id : k \in 1..Len(users_to_remove)}
    /\ Len(users_to_remove) < Len(CurMembers)

\* C14: users_to_add has one entry for each source handle that is not in
\* the expanded member handles and is a handle of a target user, with the id
\* of such a user; every other missing source handle adds one to
\* users_not_found_count, and the comparison counts no error and makes no
\* remote call
C14_AddResolvableMissingHandles ==
    [][Compared =>
        LET missing == AdNicknamesSet(GetGroupMembersFromFile(
                                            AdGroupOf(y360_groups[i]), files'))
                            \ MemberNicknames(CurMembers, y360_users)
            resolvable ==
                {h \in missing : \E u \in Range(y360_users) : h \in HandlesOf(u)}
        IN /\ {x.nickname : x \in users_to_add'} = resolvable
           /\ Cardinality(users_to_add') = Cardinality(resolvable)
           /\ \A x \in users_to_add' :
                \E u \in Range(y360_users) :
                    x.nickname \in HandlesOf(u) /\ x.user_id = u.id
           /\ stats'.users_not_found_count
                = stats.users_not_found_count + Cardinality(missing \ resolvable)
           /\ stats'.errors_count = stats.errors_count
           /\ stats'.users_added_count = stats.users_added_count
           /\ calls' = Append(calls, ReadCall("ok"))
           /\ remote_members' = remote_members]_vars

\* a comparison, in a group that has members, with a handle to add and a
\* handle that no target user has
C14_Witness ==
    /\ JustCompared
    /\ users_to_add /= {}
    /\ stats.users_not_found_count >= 1
    /\ CurMembers /= <<>>

\* C15 as stated: when a live membership pass whose remote calls all
\* succeeded has returned, the user members of every tagged and matched
\* target group are the target users that the source handles resolve to
C15_SourceWins ==
    (fn = "members" /\ pc = "returned" /\ ~dry_run /\ failures = 0 /\ i > 0) =>
        \A k \in 1..Len(y360_groups) :
            (/\ ~TagTestRaises(y360_groups[k])
             /\ IsTagged(Get(y360_groups[k].externalId, <<>>))
             /\ HasAdGroup(y360_groups[k])) =>
                LET members == remote_members[y360_groups[k].id]
                    emails == GetGroupMembersFromFile(AdGroupOf(y360_groups[k]), files)
                IN {members[n].id : n \in 1..Len(members)}
                    = {UserByNickname(y360_users, h).id :
                            h \in AdNicknamesSet(emails) \cap NicknameKeys(y360_users)}

----------------------------------------------------------------------------
(* Creation and field diff of groups *)

\* the source groups with objectGUID, displayName and mail for which no
\* target group of the snapshot has externalId 'DDG;<objectGUID>'
ToCreate ==
    {k \in 1..Len(ad_groups) :
        /\ HasRequiredFields(ad_groups[k])
        /\ \A n \in 1..Len(y360_groups) :
                Get(y360_groups[n].externalId, <<>>)
                    /= TagPrefix \o ad_groups[k].objectGUID}

\* the create calls of the pass for the source group at k
CreatesFor(k) ==
    {n \in 1..Len(calls) :
        /\ calls[n].op = "create"
        /\ calls[n].data.externalId = TagPrefix \o ad_groups[k].objectGUID}

\* the counter of creates at the return: the creates that succeeded, or in a
\* dry run the creates that would be made
CreatedCounted ==
    stats.created_count =
        IF dry_run THEN Cardinality(ToCreate)
        ELSE Cardinality({n \in 1..Len(calls) :
                            calls[n].op = "create" /\ calls[n].res = "ok"})

\* C16 as stated: a pass over source groups with distinct objectGUIDs
\* makes one create for each such source group (none
\* in a dry run), with name = displayName and label = the part of mail
\* before '@', and counts one more group created for each success
C16_OneCreatePerNewGroup ==
    (fn = "groups" /\ pc = "returned" /\ DistinctGuids(ad_groups)) =>
        /\ \A k \in ToCreate :
                IF dry_run THEN CreatesFor(k) = {}
                ELSE /\ Cardinality(CreatesFor(k)) = 1
                     /\ \A n \in CreatesFor(k) :
                            /\ calls[n].data.name = ad_groups[k].displayName
                            /\ calls[n].data.label = SplitFirst(ad_groups[k].mail, 64)
        /\ CreatedCounted

\* C16 as amended: the payload has the label when mail contains '@' and has
\* no label when it does not
C16_OneCreatePerNewGroupLabelIfAt ==
    (fn = "groups" /\ pc = "returned" /\ DistinctGuids(ad_groups)) =>
        /\ \A k \in ToCreate :
                IF dry_run THEN CreatesFor(k) = {}
                ELSE /\ Cardinality(CreatesFor(k)) = 1
                     /\ \A n \in CreatesFor(k) :
                            /\ calls[n].data.name = ad_groups[k].displayName
                            /\ calls[n].data.label =
                                    IF Contains(ad_groups[k].mail, 64)
                                    THEN SplitFirst(ad_groups[k].mail, 64)
                                    ELSE Absent
        /\ CreatedCounted

\* a live pass that created a group with a label and a group without one
C16_Witness ==
    /\ fn = "groups" /\ pc = "returned" /\ ~dry_run /\ DistinctGuids(ad_groups)
    /\ stats.created_count = 2
    /\ \E k, m \in ToCreate :
            /\ Contains(ad_groups[k].mail, 64)
            /\ ~Contains(ad_groups[m].mail, 64)

\* the matched pairs of the snapshots: a source group with its fields and
\* the target group the index by externalId holds for it (the last one)
Pairs ==
    {p \in (1..Len(ad_groups)) \X (1..Len(y360_groups)) :
        /\ HasRequiredFields(ad_groups[p[1]])
        /\ Get(y360_groups[p[2]].externalId, <<>>)
                = TagPrefix \o ad_groups[p[1]].objectGUID
        /\ \A n \in (p[2] + 1)..Len(y360_groups) :
                Get(y360_groups[n].externalId, <<>>)
                    /= Get(y360_groups[p[2]].externalId, <<>>)}

\* the patch calls of the pass for a target group
PatchesOf(t) ==
    {n \in 1..Len(calls) : calls[n].op = "patch" /\ calls[n].id = y360_groups[t].id}

\* expected_description of a source group: ad_group.get('description'),
\* or "" when that is None or empty or the key is missing
SourceDescription(k) == ExpectedDescription(GetOrNone(ad_groups[k].description))

\* the keys a patch of the pair has by comparing name and description as
\* they are, the label being compared as `label`
DiffKeys(p, label) ==
    {f \in {"name", "label", "description"} :
        CASE f = "name" ->
                Get(y360_groups[p[2]].name, <<>>) /= ad_groups[p[1]].displayName
          [] f = "label" -> label
          [] f = "description" ->
                Get(y360_groups[p[2]].description, <<>>) /= SourceDescription(p[1])}

\* the pass sent, for the pair, one patch with these keys, or none when
\* there is no key
PatchKeysAre(p, keys) ==
    /\ Cardinality(PatchesOf(p[2])) = IF keys = {} THEN 0 ELSE 1
    /\ \A n \in PatchesOf(p[2]) : DOMAIN calls[n].data = keys

\* C17 as stated: in a pass over source groups with distinct objectGUIDs
\* the patch of a matched pair has a key of name, label,
\* description exactly when the value derived from the source differs from
\* the target's, and no patch is sent when none differs
C17_PatchHasDifferingFields ==
    (fn = "groups" /\ pc = "returned" /\ ~dry_run /\ DistinctGuids(ad_groups)) =>
        \A p \in Pairs :
            PatchKeysAre(p, DiffKeys(p, Get(y360_groups[p[2]].label, <<>>)
                                            /= ExpectedLabel(ad_groups[p[1]].mail)))

\* C17 as amended: the label is a key exactly when the source mail has a
\* local part before '@' and this differs from the target's label
C17_PatchHasDifferingFieldsLabelIfAt ==
    (fn = "groups" /\ pc = "returned" /\ ~dry_run /\ DistinctGuids(ad_groups)) =>
        \A p \in Pairs :
            PatchKeysAre(p,
                DiffKeys(p, /\ Contains(ad_groups[p[1]].mail, 64)
                            /\ SplitFirst(ad_groups[p[1]].mail, 64) /= <<>>
                            /\ Get(y360_groups[p[2]].label, <<>>)
                                    /= SplitFirst(ad_groups[p[1]].mail, 64)))

\* a live pass with a pair that needed no patch and a pair that was patched
\* in some and not in all of its fields
C17_Witness ==
    /\ fn = "groups" /\ pc = "returned" /\ ~dry_run /\ DistinctGuids(ad_groups)
    /\ \E p \in Pairs : PatchesOf(p[2]) = {}
    /\ \E p \in Pairs : \E n \in PatchesOf(p[2]) :
            DOMAIN calls[n].data \notin {{}, {"name", "label", "description"}}

\* C18 as stated: for a pair whose source description is None, missing or
\* empty and whose target description is None, missing or empty, no patch
\* has the key description
C18_EmptyDescriptionsAreEqual ==
    (fn = "groups" /\ pc = "returned" /\ ~dry_run) =>
        \A p \in Pairs :
            (/\ SourceDescription(p[1]) = <<>>
             /\ y360_groups[p[2]].description \in {None, Absent, <<>>}) =>
                \A n \in PatchesOf(p[2]) : "description" \notin DOMAIN calls[n].data

\* C19: in a pass over source groups with distinct objectGUIDs a patch has
\* the key label only if the source mail has a local part
\* before '@' that differs from the target's label, and its value is that
\* local part; a pair whose source mail has none gets no label, whatever
\* the target's label is
C19_LabelOnlyFromLocalPart ==
    (fn = "groups" /\ pc = "returned" /\ ~dry_run /\ DistinctGuids(ad_groups)) =>
        \A p \in Pairs : \A n \in PatchesOf(p[2]) :
            "label" \in DOMAIN calls[n].data =>
                /\ Contains(ad_groups[p[1]].mail, 64)
                /\ calls[n].data.label = SplitFirst(ad_groups[p[1]].mail, 64)
                /\ calls[n].data.label /= Get(y360_groups[p[2]].label, <<>>)

\* a live pass that patched a pair without the label, the source mail
\* having no '@' and the target having another label than the mail
C19_Witness ==
    /\ fn = "groups" /\ pc = "returned" /\ ~dry_run /\ DistinctGuids(ad_groups)
    /\ \E p \in Pairs : \E n \in PatchesOf(p[2]) :
            /\ ~Contains(ad_groups[p[1]].mail, 64)
            /\ Get(y360_groups[p[2]].label, <<>>) /= ad_groups[p[1]].mail
            /\ "label" \notin DOMAIN calls[n].data

----------------------------------------------------------------------------
(* Empty snapshots *)

\* the pass makes no step but the return: no call, no counter, the service
\* as it was
Aborted ==
    /\ pc \in {"start", "returned"}
    /\ calls = <<>>
    /\ \A f \in DOMAIN stats : stats[f] = 0
    /\ pc = "returned" => (result.ok /\ \A f \in DOMAIN result.stats : result.stats[f] = 0)

\* C20 as stated: either function, given an empty source-group list or an
\* empty target-group list (sync_group_members: or an empty target-user
\* list), returns at once, without a remote call and with every counter 0
C20_EmptyInputAborts ==
    (\/ ad_groups = <<>>
     \/ y360_groups = <<>>
     \/ fn = "members" /\ y360_users = <<>>) => Aborted

\* C20 as amended: sync_ad_groups_to_y360 does so for an empty source-group
\* list only; sync_group_members for each of its three lists
C20_EmptyInputAbortsButEmptyTarget ==
    (\/ ad_groups = <<>>
     \/ fn = "members" /\ (y360_groups = <<>> \/ y360_users = <<>>)) => Aborted

\* sync_group_members returned on an empty user list although a tagged
\* target group has its source group
C20_Witness ==
    /\ fn = "members" /\ pc = "returned"
    /\ y360_users = <<>> /\ ad_groups /= <<>>
    /\ \E k \in 1..Len(y360_groups) :
            /\ ~TagTestRaises(y360_groups[k])
            /\ IsTagged(Get(y360_groups[k].externalId, <<>>))
            /\ HasAdGroup(y360_groups[k])

----------------------------------------------------------------------------
(* Entities that are skipped *)

\* C21 as stated: a target group whose externalId is the sync prefix with
\* nothing behind the delimiter ('DDG;') or without the delimiter ('DDG') is
\* never the target of a remote call (so it is not deleted, patched or
\* changed in its members, and adds nothing to errors_count), and it is
\* counted as skipped by the pass that returns
C21_MalformedKeySkipped ==
    LET malformed ==
            {k \in 1..Len(y360_groups) :
                y360_groups[k].externalId \in {<<68, 68, 71, 59>>, <<68, 68, 71>>}}
        skipped == IF fn = "groups" THEN stats.skipped_count
                   ELSE stats.skipped_groups_count
    IN /\ \A n \in 1..Len(calls) :
            calls[n].op \in {"delete", "patch", "add", "remove", "members"} =>
                \A k \in malformed : y360_groups[k].id /= calls[n].id
       /\ \A n \in 1..Len(groups_to_delete) :
            \A k \in malformed : y360_groups[k].id /= groups_to_delete[n].id
       /\ (pc = "returned" /\ i > 0) => skipped >= Cardinality(malformed)

\* C22: a source group without objectGUID, displayName or mail adds one to
\* skipped_count and nothing to errors_count, and no create or patch is made
\* for it, in both modes; a call is for the source group whose objectGUID
\* it carries, the objectGUIDs of the source groups being distinct
C22_IncompleteSourceSkipped ==
    fn = "groups" =>
        LET incomplete ==
                {k \in 1..Len(ad_groups) :
                    \/ ad_groups[k].objectGUID \in {None, Absent, <<>>}
                    \/ ad_groups[k].displayName \in {None, Absent, <<>>}
                    \/ ad_groups[k].mail \in {None, <<>>}}
            passed == IF pc = "start" THEN {} ELSE 1..(i - 1)
        IN /\ stats.skipped_count = Cardinality(incomplete \cap passed)
           /\ pc = "returned" /\ ad_groups /= <<>> => incomplete \subseteq passed
           /\ stats.errors_count
                = Cardinality({n \in 1..Len(calls) : NotDone(calls[n])})
           /\ \A k \in incomplete :
                (/\ ad_groups[k].objectGUID \notin {None, <<>>}
                 /\ DistinctGuids(ad_groups)) =>
                    /\ \A n \in 1..Len(calls) :
                            calls[n].op = "create" =>
                                calls[n].data.externalId
                                    /= TagPrefix \o ad_groups[k].objectGUID
                    /\ \A n \in 1..Len(calls) :
                            calls[n].op = "patch" =>
                                \A t \in TargetsWithId(calls[n].id) :
                                    y360_groups[t].externalId
                                        /= TagPrefix \o ad_groups[k].objectGUID

\* a pass that returned after it skipped a source group without mail or
\* displayName whose target group exists, and made a call for another group
C22_Witness ==
    /\ fn = "groups" /\ pc = "returned" /\ DistinctGuids(ad_groups)
    /\ stats.skipped_count = 1
    /\ calls /= <<>>
    /\ \E k \in 1..Len(ad_groups), t \in 1..Len(y360_groups) :
            /\ ad_groups[k].objectGUID /= None
            /\ (ad_groups[k].displayName = None \/ ad_groups[k].mail = None)
            /\ y360_groups[t].externalId = TagPrefix \o ad_groups[k].objectGUID

----------------------------------------------------------------------------
(* Deletion of the groups that left the source *)

\* C23: in a pass with a non-empty source list, every target group that
\* carries 'DDG;' and whose suffix is the objectGUID of no source group gets
\* one delete call in live mode and none in a dry run; deleted_count is the
\* number of deletes the service reported as removed, and in a dry run the
\* number of these groups
C23_OrphansAreDeleted ==
    (fn = "groups" /\ pc = "returned" /\ ad_groups /= <<>>) =>
        LET orphans == {k \in 1..Len(y360_groups) : Orphan(y360_groups[k])}
            deletes(k) == {n \in 1..Len(calls) :
                            calls[n].op = "delete" /\ calls[n].id = y360_groups[k].id}
        IN /\ \A k \in orphans :
                Cardinality(deletes(k)) = IF dry_run THEN 0 ELSE 1
           /\ stats.deleted_count =
                IF dry_run THEN Cardinality(orphans)
                ELSE Cardinality({k \in orphans :
                                    \E n \in deletes(k) : calls[n].res = "ok"})

\* a live pass over two such groups: the service removed one and reported
\* the other as not removed
C23_Witness ==
    /\ fn = "groups" /\ pc = "returned" /\ ~dry_run
    /\ Cardinality({k \in 1..Len(y360_groups) : Orphan(y360_groups[k])}) = 2
    /\ stats.deleted_count = 1
    /\ \E n \in 1..Len(calls) : calls[n].op = "delete" /\ calls[n].res = "noop"

----------------------------------------------------------------------------
(* The whole run *)

\* C24: in the whole run sync_group_members works on the list of target
\* groups fetched after sync_ad_groups_to_y360 returned (the groups of the
\* service then, or the empty list of a failed fetch), and when it returns
\* from a fetched list it has read the members of every group that the
\* group phase created, under the id the service gave the group
C24_MembersOnRefetchedGroups ==
    fn = "members" =>
        /\ y360_groups \in {remote_groups, <<>>}
        /\ (pc = "returned" /\ y360_groups /= <<>> /\ ~dry_run) =>
                \A id \in (next_id - prev.stats.created_count)..(next_id - 1) :
                    /\ \E k \in 1..Len(y360_groups) : y360_groups[k].id = id
                    /\ \E n \in 1..Len(calls) :
                            calls[n].op = "members" /\ calls[n].id = id

\* a live run whose group phase created a group and deleted another, and
\* whose membership phase added a member to the created group
C24_Witness ==
    /\ fn = "members" /\ pc = "returned" /\ ~dry_run
    /\ prev.stats.created_count >= 1
    /\ prev.stats.deleted_count >= 1
    /\ \E n \in 1..Len(calls) :
            /\ calls[n].op = "add" /\ calls[n].res = "ok"
            /\ calls[n].id = next_id - 1

----------------------------------------------------------------------------
(* Errors and delays *)

\* C25 as stated: errors_count grows only in a step whose remote call
\* failed, and a remote call that the wrapper reports as successful never
\* adds to it, in both functions
C25_ErrorsOnlyOnFailure ==
    [][LET called == Len(calls') > Len(calls)
           call == calls'[Len(calls) + 1]
       IN /\ stats'.errors_count > stats.errors_count =>
                (called /\ call.res = "fail")
          /\ (called /\ call.res \in {"ok", "noop"}) =>
                stats'.errors_count = stats.errors_count]_vars

\* C25 as amended: errors_count grows, by one, only in a step whose remote
\* call failed or whose delete of a group was answered with removed = false;
\* every other call that the wrapper reports as successful adds nothing
C25_ErrorsOnFailureOrGroupNotRemoved ==
    [][LET called == Len(calls') > Len(calls)
           call == calls'[Len(calls) + 1]
       IN /\ stats'.errors_count > stats.errors_count =>
                /\ called
                /\ call.res = "fail" \/ (call.op = "delete" /\ call.res = "noop")
                /\ stats'.errors_count = stats.errors_count + 1
          /\ (called /\ (call.res = "ok" \/ (call.res = "noop" /\ call.op /= "delete")))
                => stats'.errors_count = stats.errors_count]_vars

\* a membership pass with one failed call, counted, and an add or a remove
\* that the service answered with added or deleted = false, not counted
C25_Witness ==
    /\ fn = "members" /\ pc = "returned"
    /\ stats.errors_count = 1
    /\ \E n \in 1..Len(calls) : calls[n].res = "fail"
    /\ \E n \in 1..Len(calls) : calls[n].res = "noop"

\* C26: in live mode every create, patch, delete, add and remove is followed
\* by one sleep before the next of these calls, and the pass sleeps at no
\* other place; in a dry run neither function sleeps
C26_SleepAfterEachMutation ==
    /\ \A n \in 1..Len(calls) :
            calls[n].op \in MutatingOps =>
                /\ n < Len(calls)
                /\ calls[n + 1] = Sleep
    /\ \A n \in 1..Len(calls) :
            calls[n] = Sleep => (n > 1 /\ calls[n - 1].op \in MutatingOps)
    /\ dry_run => \A n \in 1..Len(calls) : calls[n] /= Sleep

\* a live membership pass with an add and a remove, and a sleep behind
\* each of them
C26_Witness ==
    /\ ~dry_run /\ fn = "members" /\ pc = "returned"
    /\ \E n, m \in 1..Len(calls) :
            /\ n + 1 < m /\ m < Len(calls)
            /\ calls[n].op = "add" /\ calls[n + 1] = Sleep
            /\ calls[m].op = "remove" /\ calls[m + 1] = Sleep

----------------------------------------------------------------------------
(* The snapshots *)

\* C27: no step of a pass of either function changes the list of source
\* groups, of target groups or of target users it was given, or a record of
\* them, in either mode and whatever the service answers
C27_SnapshotsAreNotModified ==
    [][UNCHANGED <<ad_groups, y360_groups, y360_users>>]_vars

\* a live group pass that returned after the service changed its groups:
\* the list the pass was given differs from the groups of the service
C27_Witness ==
    /\ fn = "groups" /\ pc = "returned" /\ ~dry_run /\ pass = 1
    /\ y360_groups /= <<>>
    /\ remote_groups /= y360_groups
    /\ \E n \in 1..Len(calls) : calls[n].op = "patch" /\ calls[n].res = "ok"

----------------------------------------------------------------------------
(* Dry run *)

\* C28 as stated: in a dry run neither function makes a remote call, not
\* even the read of the members of a group, and errors_count stays 0
C28_DryRunCallsNoRemote ==
    dry_run => (calls = <<>> /\ stats.errors_count = 0)

\* C28 as amended: a dry run of sync_ad_groups_to_y360 makes no remote call
\* and counts no error; a dry run of sync_group_members makes no call but
\* the read of the members of each matched group, and errors_count is the
\* number of these reads that failed
C28_DryRunReadsMembersOnly ==
    dry_run =>
        /\ fn = "groups" => (calls = <<>> /\ stats.errors_count = 0)
        /\ \A n \in 1..Len(calls) : calls[n].op = "members"
        /\ stats.errors_count
                = Cardinality({n \in 1..Len(calls) : calls[n].res = "fail"})

\* a dry membership pass that counted a user as added, without a call for
\* it, and counted an error for a member list it could not read
C28_Witness ==
    /\ dry_run /\ fn = "members" /\ pc = "returned"
    /\ stats.users_added_count >= 1
    /\ stats.errors_count = 1
    /\ \E n \in 1..Len(calls) : calls[n].op = "members" /\ calls[n].res = "ok"

----------------------------------------------------------------------------
(* The retries of the remote wrappers *)

\* C29: an invocation of one of the six wrappers of groups makes at most
\* MAX_RETRIES requests; every request before its last one was answered with
\* a status other than 200; it has returned exactly when a request was
\* answered with 200 or raised, or the third was made; and it returns
\* success for an answer of 200 and the failure for every other end; a
\* wrapper of members given a type of member that is not valid makes no
\* request and returns the failure
C29_GroupWrappersAreBounded ==
    fn \in {"create_group_by_api", "patch_group_by_api", "delete_group_by_api",
            "add_member_to_group_by_api", "delete_member_from_group_by_api",
            "get_group_members_by_api"} =>
      IF InvalidMemberType
      THEN /\ calls = <<>>
           /\ pc = "returned" => result = [ok |-> FALSE, data |-> "empty"]
      ELSE
        /\ Len(calls) <= MAX_RETRIES
        /\ retries = Cardinality({n \in 1..Len(calls) : calls[n].res = "status"})
                        + (IF Len(calls) = MAX_RETRIES /\ calls[MAX_RETRIES].res = "status"
                           THEN 0 ELSE 1)
        /\ \A n \in 1..(Len(calls) - 1) : calls[n].res = "status"
        /\ pc = "returned" <=>
                /\ calls /= <<>>
                /\ \/ calls[Len(calls)].res \in {"ok", "raise"}
                   \/ Len(calls) = MAX_RETRIES
        /\ pc = "returned" =>
                result = IF calls[Len(calls)].res = "ok"
                         THEN [ok |-> TRUE, data |-> "json"]
                         ELSE [ok |-> FALSE, data |-> "empty"]

\* a wrapper of groups that returned the failure after three requests
C29_Witness ==
    /\ fn = "delete_group_by_api" /\ pc = "returned"
    /\ Len(calls) = MAX_RETRIES
    /\ \A n \in 1..Len(calls) : calls[n].res = "status"
    /\ ~result.ok

\* C30 as stated: an invocation of create_user_by_api or patch_user_by_api
\* makes at most MAX_RETRIES requests, also when requests raise
C30_UserWrappersAreBounded ==
    fn \in {"create_user_by_api", "patch_user_by_api"} => Len(calls) <= MAX_RETRIES

----------------------------------------------------------------------------
(* The index of the target users *)

\* C31: a source handle, lower-cased, resolves to a target user exactly
\* when a user with a nickname has it, whatever the case, as nickname or
\* as alias; it then resolves to the last such user of the list, and the
\* entries of users_to_add carry the id of that user
C31_IndexLastWriteWins ==
    [][Compared =>
        LET claimants(h) ==
                {k \in 1..Len(y360_users) :
                    /\ y360_users[k].nickname \notin {None, Absent, <<>>}
                    /\ \/ Lower(y360_users[k].nickname) = h
                       \/ \E a \in Range(AliasList(y360_users[k])) : Lower(a) = h}
            last(h) == CHOOSE k \in claimants(h) : \A m \in claimants(h) : m <= k
            missing == AdNicknamesSet(GetGroupMembersFromFile(
                                            AdGroupOf(y360_groups[i]), files'))
                            \ MemberNicknames(CurMembers, y360_users)
        IN /\ \A x \in users_to_add' :
                /\ claimants(x.nickname) /= {}
                /\ x.user_id = y360_users[last(x.nickname)].id
           /\ \A h \in missing :
                claimants(h) /= {} <=> h \in {x.nickname : x \in users_to_add'}]_vars

\* a comparison that resolved a source handle claimed by two target users,
\* and a source handle spelled in another case than the user's alias
C31_Witness ==
    /\ JustCompared
    /\ \E x \in users_to_add :
            Cardinality({k \in 1..Len(y360_users) :
                            x.nickname \in HandlesOf(y360_users[k])}) = 2
    /\ \E x \in users_to_add, k \in 1..Len(y360_users) :
            /\ x.user_id = y360_users[k].id
            /\ \E a \in Range(AliasList(y360_users[k])) :
                    a /= x.nickname /\ Lower(a) = x.nickname

----------------------------------------------------------------------------
(* The groups sync_group_members works on *)

\* C32: the step of sync_group_members for a target group that carries
\* 'DDG;' and whose suffix is the objectGUID of no source group makes no
\* remote call, adds one to skipped_groups_count and changes no member;
\* every read, add and remove of a pass is addressed to a target group that
\* carries 'DDG;' and whose suffix is the objectGUID of a source group
C32_UnmatchedGroupIsSkippedUnread ==
    /\ [][(/\ fn = "members" /\ pc = "m_loop" /\ i <= Len(y360_groups)
           /\ Orphan(y360_groups[i])) =>
                /\ calls' = calls
                /\ remote_members' = remote_members
                /\ stats'.skipped_groups_count = stats.skipped_groups_count + 1
                /\ stats'.errors_count = stats.errors_count
                /\ i' = i + 1 /\ pc' = pc]_vars
    /\ [](fn = "members" =>
            \A n \in 1..Len(calls) :
                calls[n].op \in {"members", "add", "remove"} =>
                    \A k \in TargetsWithId(calls[n].id) :
                        CarriesTag(y360_groups[k]) /\ ~Orphan(y360_groups[k]))

\* a pass that skipped a tagged group without source group and added a
\* member to a group that has its source group
C32_Witness ==
    /\ fn = "members" /\ pc = "returned"
    /\ \E k \in 1..Len(y360_groups) : Orphan(y360_groups[k])
    /\ stats.skipped_groups_count = 1
    /\ \E n \in 1..Len(calls) : calls[n].op = "add" /\ calls[n].res = "ok"

----------------------------------------------------------------------------
(* The target groups that stay *)

\* C34: in a pass of sync_ad_groups_to_y360 no delete is issued or queued
\* for a target group whose externalId is 'DDG;' followed by the objectGUID
\* of a source group, whether that source group has displayName and mail or
\* not; and no target group gets a patch and a delete in the same pass
C34_SourceGuidProtectsTarget ==
    fn = "groups" =>
        LET claimed == {t \in 1..Len(y360_groups) :
                            \E k \in 1..Len(ad_groups) :
                                /\ ad_groups[k].objectGUID \notin {None, <<>>}
                                /\ y360_groups[t].externalId
                                        = TagPrefix \o ad_groups[k].objectGUID}
            patched == {calls[n].id : n \in {m \in 1..Len(calls) :
                                                calls[m].op = "patch"}}
            deleted == {calls[n].id : n \in {m \in 1..Len(calls) :
                                                calls[m].op = "delete"}}
            queued  == {groups_to_delete[n].id : n \in 1..Len(groups_to_delete)}
        IN /\ \A t \in claimed : y360_groups[t].id \notin deleted \cup queued
           /\ patched \cap (deleted \cup queued) = {}

\* a pass that deleted a target group and kept the target group of a source
\* group it skipped for a missing displayName or mail
C34_Witness ==
    /\ fn = "groups" /\ pc = "returned"
    /\ \E n \in 1..Len(calls) : calls[n].op = "delete" /\ calls[n].res = "ok"
    /\ \E k \in 1..Len(ad_groups), t \in 1..Len(y360_groups) :
            /\ ad_groups[k].objectGUID /= None
            /\ (ad_groups[k].displayName = None \/ ad_groups[k].mail = None)
            /\ y360_groups[t].externalId = TagPrefix \o ad_groups[k].objectGUID
            /\ \A n \in 1..Len(calls) : calls[n].id /= y360_groups[t].id

----------------------------------------------------------------------------
(* The counters of sync_ad_groups_to_y360 *)

\* C35: in both modes the step of sync_ad_groups_to_y360 on one source
\* group makes at most one create or patch call and adds one to at most one
\* of created_count, updated_count, skipped_count and errors_count; the
\* step on one queued target group adds one to exactly one of deleted_count
\* and errors_count; created_count + updated_count + skipped_count never
\* exceeds ad_groups_count, and after the return every target group that
\* was to be deleted is in deleted_count or in errors_count
C35_CountersAccount ==
    /\ [][(fn = "groups" /\ pc = "g_loop" /\ i' = i + 1) =>
            LET source(st) == st.created_count + st.updated_count
                                + st.skipped_count + st.errors_count
            IN /\ Cardinality({n \in (Len(calls) + 1)..Len(calls') :
                                    calls'[n].op \in MutatingOps}) <= 1
               /\ stats'.created_count >= stats.created_count
               /\ stats'.updated_count >= stats.updated_count
               /\ stats'.skipped_count >= stats.skipped_count
               /\ stats'.errors_count >= stats.errors_count
               /\ source(stats') - source(stats) \in {0, 1}
               /\ stats'.deleted_count = stats.deleted_count]_vars
    /\ [][(fn = "groups" /\ pc = "g_delete"
            /\ groups_to_delete' /= groups_to_delete) =>
            /\ Cardinality({n \in (Len(calls) + 1)..Len(calls') :
                                calls'[n].op \in MutatingOps}) <= 1
            /\ stats'.deleted_count >= stats.deleted_count
            /\ stats'.errors_count >= stats.errors_count
            /\ (stats'.deleted_count + stats'.errors_count)
                    = (stats.deleted_count + stats.errors_count) + 1
            /\ stats'.created_count = stats.created_count
            /\ stats'.updated_count = stats.updated_count
            /\ stats'.skipped_count = stats.skipped_count]_vars
    /\ [](fn = "groups" =>
            /\ stats.created_count + stats.updated_count + stats.skipped_count
                    <= stats.ad_groups_count
            /\ stats.ad_groups_count <= Len(ad_groups)
            /\ (pc = "returned" /\ ad_groups /= <<>>) =>
                    stats.deleted_count
                      + Cardinality({n \in 1..Len(calls) :
                                        /\ calls[n].op = "delete"
                                        /\ calls[n].res \in {"fail", "noop"}})
                      = Cardinality({k \in 1..Len(y360_groups) :
                                        Orphan(y360_groups[k])}))

\* a live pass over two source groups that returned with one of them in
\* created_count, updated_count or skipped_count, with a deleted target
\* group counted and with an error counted
C35_Witness ==
    /\ fn = "groups" /\ pc = "returned" /\ ~dry_run
    /\ stats.deleted_count >= 1
    /\ stats.errors_count >= 1
    /\ stats.created_count + stats.updated_count + stats.skipped_count
            = stats.ad_groups_count - 1
    /\ stats.ad_groups_count = 2

----------------------------------------------------------------------------
(* The order of the remote calls *)

\* C36: in the call log of a pass of sync_ad_groups_to_y360 no create or
\* patch comes after a delete; in the call log of a pass of
\* sync_group_members the calls follow the order of the target list, and
\* among the calls for one group the member-list read is the first and the
\* only one, and no add comes after a remove
C36_CallsInOrder ==
    LET rank(c) == CASE c.op = "members" -> 0
                     [] c.op = "add" -> 1
                     [] OTHER -> 2
    IN /\ fn = "groups" =>
            \A m, n \in 1..Len(calls) :
                (m < n /\ calls[m].op = "delete") =>
                    calls[n].op \notin {"create", "patch"}
       /\ fn = "members" =>
            \A m, n \in 1..Len(calls) :
                (/\ m < n
                 /\ calls[m].op \in {"members", "add", "remove"}
                 /\ calls[n].op \in {"members", "add", "remove"}) =>
                    /\ \A a \in TargetsWithId(calls[m].id),
                          b \in TargetsWithId(calls[n].id) : a <= b
                    /\ calls[m].id = calls[n].id =>
                            /\ rank(calls[m]) <= rank(calls[n])
                            /\ calls[n].op /= "members"

\* a live pass of sync_group_members that read the members of a group,
\* added one and removed one, and then read the members of the next group
C36_Witness ==
    /\ fn = "members" /\ pc = "returned"
    /\ \E a, b, c, d \in 1..Len(calls) :
            /\ a < b /\ b < c /\ c < d
            /\ calls[a].op = "members" /\ calls[b].op = "add"
            /\ calls[c].op = "remove" /\ calls[d].op = "members"
            /\ calls[a].id = calls[b].id /\ calls[b].id = calls[c].id
            /\ calls[d].id /= calls[a].id

----------------------------------------------------------------------------
(* The paginated listings *)

\* C33 as stated: get_all_groups_from_api360 and
\* get_all_api360_users_from_api return the concatenation of every page of
\* the listing or the empty list
C33_AllPagesOrNothing ==
    [][(pc \in {"page", "failed"} /\ pc' = "returned") =>
        LET cat[n \in 0..Len(remote_pages)] ==
                IF n = 0 THEN <<>> ELSE cat[n - 1] \o remote_pages[n]
        IN result' \in {cat[Len(remote_pages)], <<>>}]_vars

\* C33: get_all_groups_from_api360 returns the concatenation of every page
\* of the listing, get_all_api360_users_from_api the concatenation of the
\* users of every page that are no robots and have an id of at least
\* 1130000000000000; both return the empty list instead when the last
\* request raised or was the MAX_RETRIES-th one in a row that was answered
\* with another status than 200, and only then
C33_KeptPagesOrNothing ==
    [][(pc \in {"page", "failed"} /\ pc' = "returned") =>
        LET least == <<1, 1, 3, 0, 0, 0, 0, 0, 0, 0, 0, 0, 0, 0, 0, 0>>
            cat[n \in 0..Len(remote_pages)] ==
                IF n = 0 THEN <<>>
                ELSE cat[n - 1] \o
                     (IF fn = "get_all_groups_from_api360" THEN remote_pages[n]
                      ELSE SelectSeq(remote_pages[n],
                            LAMBDA u :
                                LET zeros == Cardinality(
                                        {k \in 1..Len(u.id) :
                                            \A m \in 1..k : u.id[m] = 0})
                                    number == SubSeq(u.id, zeros + 1, Len(u.id))
                                IN /\ ~("isRobot" \in DOMAIN u /\ u.isRobot)
                                   /\ Len(number) >= Len(least)
                                   /\ Len(number) = Len(least) =>
                                        ~\E k \in 1..Len(least) :
                                            /\ number[k] < least[k]
                                            /\ SubSeq(number, 1, k - 1)
                                                    = SubSeq(least, 1, k - 1)))
            last == calls[Len(calls)]
            refused == {n \in 1..Len(calls) :
                            /\ calls[n].res = "status"
                            /\ calls[n].id = last.id}
            asked == {calls[n].id : n \in {m \in 1..Len(calls) :
                                                calls[m].res = "ok"}}
        IN /\ calls /= <<>>
           /\ last.res = "ok" =>
                /\ result' = cat[Len(remote_pages)]
                /\ asked = 1..Len(remote_pages) \cup {1}
           /\ last.res /= "ok" =>
                /\ result' = <<>>
                /\ last.res = "raise" \/ Cardinality(refused) = MAX_RETRIES]_vars

\* the users are returned from two pages, one of them got after a retry:
\* two of the three users listed, the id of the third is below
\* 1130000000000000 and written with a zero in front
C33_Witness ==
    /\ fn = "get_all_api360_users" /\ pc = "returned"
    /\ Len(remote_pages) = 2
    /\ Len(remote_pages[1]) + Len(remote_pages[2]) = 3
    /\ \E n \in 1..Len(calls) : calls[n].res = "status"
    /\ calls /= <<>> /\ calls[Len(calls)].res = "ok"
    /\ Len(result) = 2

----------------------------------------------------------------------------
(* The cache of the users *)

\* C37: a call of get_all_api360_users starts the fetch from the API when
\* the cached list is empty, force is set or more than
\* ALL_USERS_REFRESH_IN_MINUTES minutes have passed since the list was
\* stored, and only then; otherwise it returns the cached list, leaves the
\* list and its time alone and makes no request; a list returned without a
\* request is never empty
C37_CacheServesFreshNonEmpty ==
    /\ [][(/\ fn = "get_all_api360_users"
           /\ pc \in {"idle", "returned"} /\ now' = now) =>
            IF \/ all_users = <<>>
               \/ force'
               \/ now - all_users_get_timestamp > 15 * 60
            THEN pc' = "page" /\ current_page' = 1 /\ calls' = <<>>
            ELSE /\ pc' = "returned"
                 /\ result' = all_users
                 /\ calls' = <<>>
                 /\ all_users' = all_users
                 /\ all_users_get_timestamp' = all_users_get_timestamp]_vars
    /\ [][(fn = "get_all_api360_users" /\ pc = "page" /\ pc' /= "page") =>
            calls' /= <<>>]_vars
    /\ [](fn = "get_all_api360_users" /\ pc = "returned" =>
            /\ result = all_users
            /\ calls = <<>> => result /= <<>>)

\* the list is served from the cache 900 seconds after it was stored
C37_Witness ==
    /\ fn = "get_all_api360_users" /\ pc = "returned"
    /\ calls = <<>> /\ ~force
    /\ now - all_users_get_timestamp = 15 * 60
    /\ all_users_get_timestamp > 0
    /\ Len(result) = 2

====
